---- MODULE Spec2Model ----
EXTENDS Integers, Sequences, FiniteSets, TLC

(***************************************************************************)
(* Model of the project-template helpers:                                  *)
(*   scripts/setup_new_project.py  (identity resolution, filesystem        *)
(*                                  rewriter, remaining-token scan)        *)
(*   tasks/create_package_version.py (backup / swap / restore around the   *)
(*                                  packaging step)                        *)
(*                                                                         *)
(* Text.  A Python str is a sequence of atoms.  An atom is one character,  *)
(* or a whole fixed word that the code only ever treats as a unit (a       *)
(* placeholder token, ".json", "node_modules", ...).  Substring search and *)
(* str.replace are computed on these sequences.                            *)
(***************************************************************************)

VARIABLES
    fs,          \* the working directory: set of nodes [path, dir, content, readable]
    yml,         \* cumulusci.yml: [exists, project_name, package_name, name_managed]
    ident,       \* the identity handed to replace_tokens_in_files
    runLog,      \* one record per completed replace_tokens_in_files call
    scan         \* result of the last check_for_tokens call, [done, found]

fsVars == <<fs, yml, ident, runLog, scan>>

VARIABLES
    pkgPc,        \* position in CreatePackageVersion._run_task
    transforms,   \* self._transforms_config
    forceApp,     \* the directory force-app: [exists, files]
    backupApp,    \* the directory force-app.backup
    tempDir,      \* <scratch>/force-app below the mkdtemp directory
    tempRef,      \* the local temp_source_dir is set
    preRun,       \* force-app as it was when _run_task was entered
    parentCalls,  \* number of super()._run_task() calls
    parentSaw,    \* force-app at the last super()._run_task() call
    result,       \* how the packaging step ended: "none", "returned", "raised"
    failedAt      \* the step that raised: "none", "transform", "swap_rm", "swap_mv", "swap_cp"

pkgVars == <<pkgPc, transforms, forceApp, backupApp, tempDir, tempRef, preRun,
             parentCalls, parentSaw, result, failedAt>>

VARIABLES
    mPc,          \* position in main() of scripts/setup_new_project.py
    args,         \* the parsed command line
    env,          \* the environment variables main() reads
    source,       \* the branch that set the identity: "none", "explicit", "repo", "yml", "prompt"
    typed,        \* the text typed at the project-name prompt
    prompts,      \* number of input() calls
    exitCode,     \* -1 while running, else the process exit status
    exitAt        \* the place of the exit

mainVars == <<mPc, args, env, source, typed, prompts, exitCode, exitAt>>

VARIABLES
    derive,       \* one call derive_project_values(repo_name): [pc, repo_name, values]
    zip,          \* one call FindReplaceWithFilename.process: [pc, zf, patterns, out]
    fork,         \* one call fork_repository of the root setup_new_project.py
    sec,          \* one call create_github_secret of setup_salesforce_auth.py
    perm,         \* one call _apply_find_replace of tasks/permsets.py
    cci,          \* one call update_cumulusci_yml of the root setup_new_project.py
    retr,         \* one call process_file of tasks/retrieve_changes.py
    orig          \* the tree an interrupted run left in force-app.backup, if any

extVars == <<derive, zip, fork, sec, perm, cci, retr, orig>>

vars == <<fsVars, pkgVars, mainVars, extVars>>

----------------------------------------------------------------------------
(* Bounds *)

MaxPicks == 2      \* template entries picked into the initial tree
MaxRuns == 2       \* consecutive replace_tokens_in_files calls
MaxFiles == 2      \* files in the force-app tree of the packaging task

----------------------------------------------------------------------------
(* Text *)

TN == "__PROJECT_NAME__"
TL == "__PROJECT_LABEL__"
TOKEN_NAME == <<TN>>
TOKEN_LABEL == <<TL>>

\* Python: f in s
Contains(s, f) ==
    \E i \in 1..(Len(s) - Len(f) + 1) : SubSeq(s, i, i + Len(f) - 1) = f

\* Python: s.replace(f, r), leftmost non-overlapping occurrences, f non-empty
RECURSIVE StrReplace(_, _, _)
StrReplace(s, f, r) ==
    IF f = <<>> \/ Len(s) < Len(f) THEN s
    ELSE IF SubSeq(s, 1, Len(f)) = f
         THEN r \o StrReplace(SubSeq(s, Len(f) + 1, Len(s)), f, r)
         ELSE <<Head(s)>> \o StrReplace(Tail(s), f, r)

HasToken(s) == Contains(s, TOKEN_NAME) \/ Contains(s, TOKEN_LABEL)

\* name_managed.replace(" ", "-")
Hyphenated(name_managed) == StrReplace(name_managed, <<" ">>, <<"-">>)

\* content.replace('__PROJECT_NAME__', package_name)
\*        .replace('__PROJECT_LABEL__', name_managed_hyphenated)
ReplaceContentTokens(content, id) ==
    StrReplace(StrReplace(content, TOKEN_NAME, id.package_name),
               TOKEN_LABEL, Hyphenated(id.name_managed))

----------------------------------------------------------------------------
(* Paths and the directory tree *)

\* A path is a sequence of names relative to the working directory; a name
\* is a text.
P1(a) == << <<a>> >>
Parent(p) == SubSeq(p, 1, Len(p) - 1)
BaseName(p) == p[Len(p)]
IsPrefix(p, q) == Len(p) <= Len(q) /\ SubSeq(q, 1, Len(p)) = p

\* str(path): the names joined by "/"
RECURSIVE PathStr(_)
PathStr(p) ==
    IF Len(p) = 0 THEN <<>>
    ELSE IF Len(p) = 1 THEN p[1]
    ELSE p[1] \o <<"/">> \o PathStr(Tail(p))

Exists(t, p) == \E n \in t : n.path = p
IsFile(t, p) == \E n \in t : n.path = p /\ ~n.dir
IsDir(t, p) == \E n \in t : n.path = p /\ n.dir

\* Path(d).rglob("*"): everything below d
RGlob(t, d) == IF IsDir(t, d) THEN {n \in t : IsPrefix(d, n.path) /\ n.path # d} ELSE {}

\* Path(d).glob("*.json"): the children of d whose name ends in .json
GlobJson(t, d) ==
    IF IsDir(t, d)
    THEN {n \in t : Parent(n.path) = d /\ n.path # d
                    /\ Len(BaseName(n.path)) > 0
                    /\ BaseName(n.path)[Len(BaseName(n.path))] = ".json"}
    ELSE {}

\* os.rename(old, new) where new does not exist: the node and all below it move
RenameTree(t, old, new) ==
    {IF IsPrefix(old, n.path)
     THEN [n EXCEPT !.path = new \o SubSeq(n.path, Len(old) + 1, Len(n.path))]
     ELSE n : n \in t}

\* the order in which a directory listing yields a set of entries
RECURSIVE SetToSeq(_)
SetToSeq(S) ==
    IF S = {} THEN <<>>
    ELSE LET x == CHOOSE y \in S : TRUE IN <<x>> \o SetToSeq(S \ {x})

\* sorted(..., key=lambda p: len(p.parts)) without reverse=True
RECURSIVE ByDepthAsc(_, _)
ByDepthAsc(paths, d) ==
    IF d = 0 THEN <<>>
    ELSE ByDepthAsc(paths, d - 1) \o SetToSeq({p \in paths : Len(p) = d})

\* sorted(..., key=lambda p: len(p.parts), reverse=True)
RECURSIVE ByDepthDesc(_, _)
ByDepthDesc(paths, d) ==
    IF d = 0 THEN <<>>
    ELSE SetToSeq({p \in paths : Len(p) = d}) \o ByDepthDesc(paths, d - 1)

MaxDepth(paths) == IF paths = {} THEN 0 ELSE CHOOSE d \in {Len(p) : p \in paths} : \A q \in paths : Len(q) <= d

----------------------------------------------------------------------------
(* cumulusci.yml, as the three values the scripts address by regex         *)
(*    project:                                                             *)
(*        name: <project_name>                                             *)
(*        package:                                                         *)
(*            name: <package_name>                                         *)
(*            name_managed: <name_managed>                                 *)
(* An empty text stands for a key that is missing (no regex match, None).  *)

NoYml == [exists |-> FALSE, project_name |-> <<>>, package_name |-> <<>>, name_managed |-> <<>>]

\* atoms that the regex class \w does not match
NonWordAtoms == {" ", "-", "/", ".", ".json", ".cls", ".txt", ".md", ".pyc", ".git"}

\* the longest prefix matched by \w+
RECURSIVE WordPrefix(_)
WordPrefix(s) ==
    IF s = <<>> \/ Head(s) \in NonWordAtoms THEN <<>>
    ELSE <<Head(s)>> \o WordPrefix(Tail(s))

\* the cumulusci.yml block of replace_tokens_in_files: token replacement in
\* the content, then the three re.sub calls; written only if changed
UpdateYmlValues(y, id) ==
    LET pn0 == ReplaceContentTokens(y.project_name, id)
        pk0 == ReplaceContentTokens(y.package_name, id)
        nm0 == ReplaceContentTokens(y.name_managed, id)
        pn1 == IF pn0 # <<>> THEN id.project_name ELSE pn0
        w   == WordPrefix(pk0)
        pk1 == IF w # <<>> THEN id.package_name \o SubSeq(pk0, Len(w) + 1, Len(pk0)) ELSE pk0
        nm1 == IF nm0 # <<>> THEN id.name_managed ELSE nm0
    IN [exists |-> TRUE, project_name |-> pn1, package_name |-> pk1, name_managed |-> nm1]

UpdateYml(y, id) ==
    IF ~y.exists THEN [yml |-> y, updated |-> 0]
    ELSE LET y1 == UpdateYmlValues(y, id)
         IN [yml |-> y1, updated |-> IF y1 # y THEN 1 ELSE 0]

----------------------------------------------------------------------------
(* replace_tokens_in_files                                                 *)

SEARCH_DIRS == <<P1("force-app"), P1("datasets"), P1("robot"), P1("category"), P1(".cci")>>
ROOT_FILES == {P1(".gitignore"), P1("sfdx-project.json"), P1("README.md")}
SKIP_PATTERNS == {<<"__pycache__">>, <<".pyc">>, <<"node_modules">>}
ROBOT_TOKEN_DIR == <<<<"robot">>, TOKEN_LABEL>>

\* the rename loops reach the collected path: is it still there, and is it a
\* directory
Attempted(acc, path) ==
    [acc EXCEPT !.attempts = Append(@, [path |-> path,
                                        valid |-> Exists(acc.fs, path),
                                        dir |-> IsDir(acc.fs, path)])]

\* TryRename without the target-exists guard: the rename replaces the target
TryRenameOverwrites(acc, path, new_path, failNames) ==
    IF BaseName(path) \in failNames \/ ~Exists(acc.fs, path)
    THEN Attempted(acc, path)
    ELSE [Attempted(acc, path) EXCEPT !.fs = RenameTree({n \in @ : ~IsPrefix(new_path, n.path) \/ new_path = path},
                                       path, new_path),
                     !.renames = @ \cup {[src |-> path, dst |-> new_path]}]

\* One guarded rename, the body of the try blocks of both rename loops:
\* skipped when the target exists, no effect when os.rename raises
\* (failNames: the names whose rename the operating system refuses). The
\* log line after the rename calls relative_to(Path.cwd()) on a relative
\* path, which raises ValueError: the rename is done, the except branch is
\* taken and renamed_count += 1 is not reached.
TryRename(acc, path, new_path, failNames) ==
    IF Exists(acc.fs, new_path) /\ new_path # path
    THEN [Attempted(acc, path) EXCEPT !.skipped = @ \cup {[src |-> path, dst |-> new_path]}]
    ELSE IF BaseName(path) \in failNames \/ ~Exists(acc.fs, path)
    THEN Attempted(acc, path)
    ELSE [Attempted(acc, path) EXCEPT !.fs = RenameTree(@, path, new_path),
                     !.renames = @ \cup {[src |-> path, dst |-> new_path]}]

\* robot/__PROJECT_LABEL__ -> robot/<name_managed with hyphens>
RenameRobotDir(acc, id, failNames) ==
    LET robot_new_dir == <<<<"robot">>, Hyphenated(id.name_managed)>>
    IN IF ~Exists(acc.fs, ROBOT_TOKEN_DIR) THEN acc
       ELSE IF Exists(acc.fs, robot_new_dir)
       THEN [acc EXCEPT !.skipped = @ \cup {[src |-> ROBOT_TOKEN_DIR, dst |-> robot_new_dir]}]
       ELSE IF BaseName(ROBOT_TOKEN_DIR) \in failNames THEN acc
       ELSE [acc EXCEPT !.fs = RenameTree(@, ROBOT_TOKEN_DIR, robot_new_dir),
                        !.renames = @ \cup {[src |-> ROBOT_TOKEN_DIR, dst |-> robot_new_dir]},
                        !.renamed = @ + 1]

\* the (token, replacement) a directory name is renamed with
DirRule(name, id) ==
    IF Contains(name, TOKEN_NAME)
    THEN [token |-> TOKEN_NAME, rep |-> id.package_name]
    ELSE [token |-> TOKEN_LABEL, rep |-> Hyphenated(id.name_managed)]

\* dirs_to_rename: token-named directories below d, deepest first
DirsToRename(t, d) ==
    LET paths == {n.path : n \in {m \in RGlob(t, d) : m.dir /\ HasToken(BaseName(m.path))}}
    IN ByDepthDesc(paths, MaxDepth(paths))

\* files_to_rename: files below d whose name contains __PROJECT_NAME__
FilesToRename(t, d) ==
    SetToSeq({n.path : n \in {m \in RGlob(t, d) :
                                ~m.dir /\ Contains(BaseName(m.path), TOKEN_NAME)}})

RECURSIVE RenameDirs(_, _, _, _)
RenameDirs(acc, todo, id, failNames) ==
    IF todo = <<>> THEN acc
    ELSE LET p == Head(todo)
             rule == DirRule(BaseName(p), id)
             new_path == Parent(p) \o <<StrReplace(BaseName(p), rule.token, rule.rep)>>
         IN RenameDirs(TryRename(acc, p, new_path, failNames), Tail(todo), id, failNames)

RECURSIVE RenameFiles(_, _, _, _)
RenameFiles(acc, todo, id, failNames) ==
    IF todo = <<>> THEN acc
    ELSE LET p == Head(todo)
             new_path == Parent(p) \o <<StrReplace(BaseName(p), TOKEN_NAME, id.package_name)>>
         IN RenameFiles(TryRename(acc, p, new_path, failNames), Tail(todo), id, failNames)

\* first pass: per search directory, directories then files
RECURSIVE FirstPass(_, _, _, _)
FirstPass(acc, dirs, id, failNames) ==
    IF dirs = <<>> THEN acc
    ELSE LET d == Head(dirs)
             a1 == IF ~Exists(acc.fs, d) THEN acc
                   ELSE LET a2 == RenameDirs(acc, DirsToRename(acc.fs, d), id, failNames)
                        IN RenameFiles(a2, FilesToRename(a2.fs, d), id, failNames)
         IN FirstPass(a1, Tail(dirs), id, failNames)

\* all_files of the second pass
AllFiles(t) ==
    UNION {RGlob(t, SEARCH_DIRS[i]) : i \in 1..Len(SEARCH_DIRS)}
    \cup {n \in t : n.path \in ROOT_FILES}
    \cup GlobJson(t, P1("orgs"))
    \cup GlobJson(t, <<<<".cci">>, <<"snapshot">>>>)

\* the second pass without its skip rules
SkipsDirectoriesOnly(n) == n.dir

\* is the file left alone by the second pass
SkippedByContentPass(n) ==
    \/ n.dir
    \/ \E i \in 1..(Len(n.path) - 1) : n.path[i] = <<".git">>
    \/ BaseName(n.path) = <<"cumulusci.yml">>
    \/ \E pat \in SKIP_PATTERNS : Contains(PathStr(n.path), pat)

\* the files the second pass writes: read, replace, write back if changed
RewrittenFiles(t, id) ==
    {n \in AllFiles(t) : /\ ~SkippedByContentPass(n)
                         /\ n.readable
                         /\ ReplaceContentTokens(n.content, id) # n.content}

\* the second pass; the write is followed by relative_to(Path.cwd()) on a
\* relative path, which raises ValueError: the file is written, the except
\* branch is taken and updated_count += 1 is not reached
ContentPass(t, id) ==
    LET w == RewrittenFiles(t, id)
    IN [fs |-> {IF n \in w THEN [n EXCEPT !.content = ReplaceContentTokens(@, id)] ELSE n : n \in t},
        written |-> {n.path : n \in w},
        updated |-> 0]

\* the whole function; id.project_name None is replaced by name_managed
ReplaceTokensInFiles(t, y, id0, failNames) ==
    LET id == IF id0.project_name = <<>> THEN [id0 EXCEPT !.project_name = id0.name_managed] ELSE id0
        a0 == RenameRobotDir([fs |-> t, renamed |-> 0, renames |-> {}, skipped |-> {},
                              attempts |-> <<>>],
                             id, failNames)
        yu == UpdateYml(y, id)
        a1 == FirstPass(a0, SEARCH_DIRS, id, failNames)
        cp == ContentPass(a1.fs, id)
    IN [fs |-> cp.fs, yml |-> yu.yml,
        renamed_count |-> a1.renamed, updated_count |-> yu.updated + cp.updated,
        renames |-> a1.renames, written |-> cp.written, yml_written |-> (yu.updated = 1),
        skipped |-> a1.skipped, attempts |-> a1.attempts]

----------------------------------------------------------------------------
(* check_for_tokens (scripts/setup_new_project.py)                         *)

\* entries for one file of a search directory or a root file: name, content
NameAndContentEntries(n) ==
    (IF HasToken(BaseName(n.path)) THEN {<<n.path, "filename">>} ELSE {})
    \cup (IF n.readable /\ Contains(n.content, TOKEN_NAME) THEN {<<n.path, TN>>} ELSE {})
    \cup (IF n.readable /\ Contains(n.content, TOKEN_LABEL) THEN {<<n.path, TL>>} ELSE {})

\* entries for an orgs/*.json or .cci/snapshot/*.json file: content only
ContentEntries(n) ==
    (IF n.readable /\ Contains(n.content, TOKEN_NAME) THEN {<<n.path, TN>>} ELSE {})
    \cup (IF n.readable /\ Contains(n.content, TOKEN_LABEL) THEN {<<n.path, TL>>} ELSE {})

YmlContent(y) == y.project_name \o <<"\n">> \o y.package_name \o <<"\n">> \o y.name_managed

YmlEntries(y) ==
    IF ~y.exists THEN {}
    ELSE (IF Contains(YmlContent(y), TOKEN_NAME) THEN {<<P1("cumulusci.yml"), TN>>} ELSE {})
         \cup (IF Contains(YmlContent(y), TOKEN_LABEL) THEN {<<P1("cumulusci.yml"), TL>>} ELSE {})

\* the files check_for_tokens opens
ScannedFiles(t) ==
    {n \in UNION {RGlob(t, SEARCH_DIRS[i]) : i \in 1..Len(SEARCH_DIRS)} : ~n.dir}
    \cup {n \in t : n.path \in ROOT_FILES /\ ~n.dir}
    \cup {n \in GlobJson(t, P1("orgs")) : ~n.dir}
    \cup {n \in GlobJson(t, <<<<".cci">>, <<"snapshot">>>>) : ~n.dir}

\* tokens_found, as the set of its (path, kind) entries
CheckForTokens(t, y) ==
    UNION {NameAndContentEntries(n) :
             n \in {m \in UNION {RGlob(t, SEARCH_DIRS[i]) : i \in 1..Len(SEARCH_DIRS)} : ~m.dir}}
    \cup UNION {NameAndContentEntries(n) : n \in {m \in t : m.path \in ROOT_FILES /\ ~m.dir}}
    \cup YmlEntries(y)
    \cup UNION {ContentEntries(n) : n \in {m \in GlobJson(t, P1("orgs")) : ~m.dir}}
    \cup UNION {ContentEntries(n) : n \in {m \in GlobJson(t, <<<<".cci">>, <<"snapshot">>>>) : ~m.dir}}

----------------------------------------------------------------------------
(* The command line and environment of scripts/setup_new_project.py; an   *)
(* empty text stands for an option or variable that is not given.         *)

Args(repo, ni, pn, pk, nm) ==
    [repo_name |-> repo, non_interactive |-> ni,
     project_name |-> pn, package_name |-> pk, name_managed |-> nm]
NoArgs == Args(<<>>, FALSE, <<>>, <<>>, <<>>)

Env(grn, rn, ci, gr) ==
    [GITHUB_REPOSITORY_NAME |-> grn, REPO_NAME |-> rn, CI |-> ci, GITHUB_REPOSITORY |-> gr]
NoEnv == Env(<<>>, <<>>, "", "")

----------------------------------------------------------------------------
(* The calls modelled one at a time, before they are entered               *)

\* derive_project_values(repo_name) about to be called
DeriveStart(repo_name) ==
    [pc |-> "start", repo_name |-> repo_name,
     values |-> [project_name |-> <<>>, package_name |-> <<>>, name_managed |-> <<>>]]
DeriveIdle == [DeriveStart(<<>>) EXCEPT !.pc = "idle"]

\* FindReplaceWithFilename(options).process(zf, context) about to be called
ZipStart(zf, patterns) == [pc |-> "start", zf |-> zf, patterns |-> patterns, out |-> <<>>]
ZipIdle == [ZipStart(<<>>, <<>>) EXCEPT !.pc = "idle"]

\* the remote calls of fork_repository, none made yet
NoCalls == [post |-> 0, user |-> 0, poll |-> 0, patch |-> 0, check_fork |-> 0, check_new |-> 0]

\* fork_repository(github_token, source_owner, source_repo, new_repo_name)
\* about to be called; a status "none" is a request that was not made
ForkStart(new_repo_name) ==
    [pc |-> "start", new_repo_name |-> new_repo_name,
     post_status |-> "none", post_body |-> "none", already_exists |-> FALSE,
     user_status |-> "none", fork_status |-> "none", new_status |-> "none",
     patch_status |-> "none",
     attempt |-> 0, fork_ready |-> FALSE, ok_polls |-> 0, calls |-> NoCalls,
     returned_at |-> "none", success |-> FALSE, error |-> "", repo |-> ""]
ForkIdle == [ForkStart("") EXCEPT !.pc = "idle"]

\* create_github_secret(owner, repo, secret_name, secret_value, github_token)
\* about to be called
SecStart(secret_name, secret_value) ==
    [pc |-> "start", secret_name |-> secret_name, secret_value |-> secret_value,
     get_status |-> "none", public_key |-> "", key_id |-> "",
     encrypted_value |-> [kind |-> "none", key |-> "", text |-> ""],
     key_fetched |-> FALSE, encrypted |-> FALSE, put_status |-> "none",
     sent |-> <<>>, result |-> "none"]
SecIdle == [SecStart("", "") EXCEPT !.pc = "idle"]

\* _apply_find_replace(options) about to be called on self.options["api_names"]
PermStart(api_names, patterns, project_config) ==
    [pc |-> "start", api_names |-> api_names, patterns |-> patterns,
     project_config |-> project_config, out |-> <<>>]
PermIdle == [PermStart(<<>>, <<>>, <<>>) EXCEPT !.pc = "idle"]

\* update_cumulusci_yml(project_name, project_label) about to be called on
\* the lines of cumulusci.yml
CciStart(lines, project_label) ==
    [pc |-> "start", lines |-> lines, project_label |-> project_label, out |-> <<>>]
CciIdle == [CciStart(<<>>, <<>>) EXCEPT !.pc = "idle"]

\* process_file(filename, content) of _preserve_tokens about to be called;
\* resolved: what the org put where the token stood in the source
RetrStart(filename, content, tokens, resolved) ==
    [pc |-> "start", filename |-> filename, content |-> content,
     tokens |-> tokens, resolved |-> resolved,
     new_name |-> <<>>, new_content |-> <<>>]
RetrIdle == [RetrStart(<<>>, <<>>, <<>>, <<>>) EXCEPT !.pc = "idle"]

----------------------------------------------------------------------------
(* tasks/create_package_version.py                                         *)

\* a directory tree of the packaging task: the files by relative path
AbsentDir == [exists |-> FALSE, files |-> {}]
DirOf(files) == [exists |-> TRUE, files |-> files]
Entry(name, content) == [name |-> name, content |-> content]

\* FindReplaceTransform.process: every pattern applied to the content; a
\* pattern without find (an xpath pattern) leaves plain text as it is
RECURSIVE FindReplaceContent(_, _)
FindReplaceContent(content, patterns) ==
    IF patterns = <<>> THEN content
    ELSE FindReplaceContent(StrReplace(content, Head(patterns).find, Head(patterns).replace),
                            Tail(patterns))

\* the pattern loop stopping after the first pattern
FindReplaceNameFirstOnly(name, patterns) ==
    IF patterns = <<>> THEN name
    ELSE IF Head(patterns).find # <<>> /\ Contains(name, Head(patterns).find)
    THEN StrReplace(name, Head(patterns).find, Head(patterns).replace)
    ELSE name

\* the pattern loop of FindReplaceWithFilename.process on one entry name
RECURSIVE FindReplaceName(_, _)
FindReplaceName(name, patterns) ==
    IF patterns = <<>> THEN name
    ELSE LET pat == Head(patterns)
             new_name == IF pat.find # <<>> /\ Contains(name, pat.find)
                         THEN StrReplace(name, pat.find, pat.replace)
                         ELSE name
         IN FindReplaceName(new_name, Tail(patterns))

\* FindReplaceWithFilename.process on an archive (a sequence of entries)
Process(zf, patterns) ==
    [i \in 1..Len(zf) |-> Entry(FindReplaceName(zf[i].name, patterns),
                                FindReplaceContent(zf[i].content, patterns))]

\* zf.read(name): the last entry written under that name
ZipRead(zf, name) ==
    zf[CHOOSE i \in 1..Len(zf) : zf[i].name = name /\ \A j \in (i + 1)..Len(zf) : zf[j].name # name].content

\* the project_config values the old-name guess of _apply_transform_to_directory uses
PROJECT_CONFIG == [package_name |-> <<"Acme">>, name_managed |-> <<"Acme", " ", "Co">>]

\* the write-back loop of _apply_transform_to_directory
RECURSIVE WriteBack(_, _, _)
WriteBack(files, zf, k) ==
    IF k > Len(zf) THEN files
    ELSE LET name == zf[k].name
             written == {f \in files : f.name # name} \cup {Entry(name, ZipRead(zf, name))}
             old_name == StrReplace(StrReplace(name, PROJECT_CONFIG.package_name, TOKEN_NAME),
                                    StrReplace(PROJECT_CONFIG.name_managed, <<" ">>, <<>>),
                                    TOKEN_LABEL)
             kept == IF old_name # name
                     THEN {f \in written : f.name # old_name}
                     ELSE written
         IN WriteBack(kept, zf, k + 1)

ApplyTransformToDirectory(files, patterns) ==
    WriteBack(files, Process(SetToSeq(files), patterns), 1)

\* the transform loop of _apply_transforms_to_temp_source, on the scratch copy
RECURSIVE ApplyTransforms(_, _)
ApplyTransforms(files, configs) ==
    IF configs = <<>> THEN files
    ELSE LET c == Head(configs)
         IN ApplyTransforms(IF c.transform = "find_replace"
                            THEN ApplyTransformToDirectory(files, c.patterns)
                            ELSE files,
                            Tail(configs))

Pattern(f, r) == [find |-> f, replace |-> r]
FindReplace(patterns) == [transform |-> "find_replace", patterns |-> patterns]

\* options['transforms'] of the task
TransformConfigs ==
    { <<>>,
      <<FindReplace(<<Pattern(TOKEN_NAME, <<"Acme">>)>>)>>,
      <<FindReplace(<<Pattern(TOKEN_NAME, <<"Acme">>), Pattern(TOKEN_LABEL, <<"Acme", "-", "Co">>)>>)>> }

SourceFilePool ==
    << Entry(<<TN, "Home", ".page">>, <<TN>>),
       Entry(<<"classes", "/", "A", ".cls">>, <<"x", TL>>),
       Entry(<<TL, ".txt">>, <<"y">>) >>

SourceTrees ==
    {DirOf(fl) : fl \in {q \in SUBSET {SourceFilePool[i] : i \in 1..Len(SourceFilePool)} :
                            Cardinality(q) <= MaxFiles}}

StaleBackup == DirOf({Entry(<<"old", ".txt">>, <<"o">>)})

\* what an interrupted shutil.copytree / shutil.rmtree may leave of a tree
Partial(tree) == {AbsentDir} \cup {DirOf(fl) : fl \in SUBSET tree.files}

PkgInit ==
    /\ pkgPc = "idle"
    /\ transforms \in TransformConfigs
    /\ forceApp \in SourceTrees \cup {AbsentDir}
    /\ backupApp \in {AbsentDir, StaleBackup}
    /\ tempDir = AbsentDir
    /\ tempRef = FALSE
    /\ preRun = AbsentDir
    /\ parentCalls = 0
    /\ parentSaw = AbsentDir
    /\ result = "none"
    /\ failedAt = "none"
    /\ fs = {}
    /\ yml = NoYml
    /\ ident = [project_name |-> <<>>, package_name |-> <<>>, name_managed |-> <<>>]
    /\ runLog = <<>>
    /\ scan = [done |-> FALSE, found |-> {}]
    /\ mPc = "idle"
    /\ args = NoArgs
    /\ env = NoEnv
    /\ source = "none"
    /\ typed = <<>>
    /\ prompts = 0
    /\ exitCode = -1
    /\ exitAt = "none"
    /\ derive = DeriveIdle
    /\ zip = ZipIdle
    /\ fork = ForkIdle
    /\ sec = SecIdle
    /\ perm = PermIdle
    /\ cci = CciIdle
    /\ retr = RetrIdle
    /\ orig = AbsentDir

\* _run_task is entered
BeginRun ==
    /\ pkgPc = "idle"
    /\ pkgPc' = IF transforms # <<>> THEN "transform" ELSE "plain"
    /\ preRun' = forceApp
    /\ UNCHANGED <<transforms, forceApp, backupApp, tempDir, tempRef, parentCalls,
                   parentSaw, result, failedAt>>
    /\ UNCHANGED <<fsVars, mainVars, extVars>>

\* Step 1, _apply_transforms_to_temp_source returns the scratch directory
TransformOk ==
    /\ pkgPc = "transform"
    /\ forceApp.exists
    /\ tempDir' = DirOf(ApplyTransforms(forceApp.files, transforms))
    /\ tempRef' = TRUE
    /\ pkgPc' = "swap_rm"
    /\ UNCHANGED <<transforms, forceApp, backupApp, preRun, parentCalls, parentSaw,
                   result, failedAt>>
    /\ UNCHANGED <<fsVars, mainVars, extVars>>

\* Step 1, force-app is missing: returns None, continue without transforms
TransformNoSource ==
    /\ pkgPc = "transform"
    /\ ~forceApp.exists
    /\ pkgPc' = "fallback"
    /\ UNCHANGED <<transforms, forceApp, backupApp, tempDir, tempRef, preRun,
                   parentCalls, parentSaw, result, failedAt>>
    /\ UNCHANGED <<fsVars, mainVars, extVars>>

\* Step 1 raises (mkdtemp, copytree or a transform): the scratch directory
\* is left as it was at that moment, temp_source_dir stays None
TransformRaises ==
    /\ pkgPc = "transform"
    /\ forceApp.exists
    /\ tempDir' \in Partial(forceApp)
                    \cup {DirOf(ApplyTransforms(forceApp.files, SubSeq(transforms, 1, k))) :
                            k \in 0..(Len(transforms) - 1)}
    /\ failedAt' = "transform"
    /\ pkgPc' = "fallback"
    /\ UNCHANGED <<transforms, forceApp, backupApp, tempRef, preRun, parentCalls,
                   parentSaw, result>>
    /\ UNCHANGED <<fsVars, mainVars, extVars>>

\* the except block of Step 2: remove the scratch directory, fall back
SwapHandler(step) ==
    /\ tempDir' = IF tempRef /\ tempDir.exists THEN AbsentDir ELSE tempDir
    /\ failedAt' = step
    /\ pkgPc' = "fallback"

\* Step 2: if backup_force_app.exists(): shutil.rmtree(backup_force_app)
SwapRemoveBackup ==
    /\ pkgPc = "swap_rm"
    /\ backupApp' = AbsentDir
    /\ pkgPc' = "swap_mv"
    /\ UNCHANGED <<transforms, forceApp, tempDir, tempRef, preRun, parentCalls,
                   parentSaw, result, failedAt>>
    /\ UNCHANGED <<fsVars, mainVars, extVars>>

SwapRemoveBackupRaises ==
    /\ pkgPc = "swap_rm"
    /\ backupApp.exists
    /\ backupApp' \in Partial(backupApp) \ {AbsentDir}
    /\ SwapHandler("swap_rm")
    /\ UNCHANGED <<transforms, forceApp, tempRef, preRun, parentCalls, parentSaw, result>>
    /\ UNCHANGED <<fsVars, mainVars, extVars>>

\* Step 2: original_force_app.rename(backup_force_app)
SwapRename ==
    /\ pkgPc = "swap_mv"
    /\ backupApp' = forceApp
    /\ forceApp' = AbsentDir
    /\ pkgPc' = "swap_cp"
    /\ UNCHANGED <<transforms, tempDir, tempRef, preRun, parentCalls, parentSaw,
                   result, failedAt>>
    /\ UNCHANGED <<fsVars, mainVars, extVars>>

SwapRenameRaises ==
    /\ pkgPc = "swap_mv"
    /\ SwapHandler("swap_mv")
    /\ UNCHANGED <<transforms, forceApp, backupApp, tempRef, preRun, parentCalls,
                   parentSaw, result>>
    /\ UNCHANGED <<fsVars, mainVars, extVars>>

\* Step 2: shutil.copytree(temp_source_dir / "force-app", original_force_app)
SwapCopy ==
    /\ pkgPc = "swap_cp"
    /\ forceApp' = tempDir
    /\ pkgPc' = "package"
    /\ UNCHANGED <<transforms, backupApp, tempDir, tempRef, preRun, parentCalls,
                   parentSaw, result, failedAt>>
    /\ UNCHANGED <<fsVars, mainVars, extVars>>

SwapCopyRaises ==
    /\ pkgPc = "swap_cp"
    /\ forceApp' \in Partial(tempDir)
    /\ SwapHandler("swap_cp")
    /\ UNCHANGED <<transforms, backupApp, tempRef, preRun, parentCalls, parentSaw, result>>
    /\ UNCHANGED <<fsVars, mainVars, extVars>>

\* return super()._run_task() without transforms (the fall-backs and line 111)
PackageFallback ==
    /\ pkgPc \in {"fallback", "plain"}
    /\ parentCalls' = parentCalls + 1
    /\ parentSaw' = forceApp
    /\ result' \in {"returned", "raised"}
    /\ pkgPc' = "done"
    /\ UNCHANGED <<transforms, forceApp, backupApp, tempDir, tempRef, preRun, failedAt>>
    /\ UNCHANGED <<fsVars, mainVars, extVars>>

\* Step 3 with a packaging error caught and answered by the fall-back
PackageRetriesOnError ==
    /\ pkgPc = "package"
    /\ parentCalls' = parentCalls + 1
    /\ parentSaw' = forceApp
    /\ result' \in {"returned", "raised"}
    /\ tempDir' = IF result' = "returned" /\ tempRef /\ tempDir.exists THEN AbsentDir ELSE tempDir
    /\ pkgPc' = IF result' = "raised" THEN "fallback" ELSE "restore"
    /\ UNCHANGED <<transforms, forceApp, backupApp, tempRef, preRun, failedAt>>
    /\ UNCHANGED <<fsVars, mainVars, extVars>>

\* Step 3, the try block: super()._run_task() on the swapped tree; on
\* success the scratch directory is removed
Package ==
    /\ pkgPc = "package"
    /\ parentCalls' = parentCalls + 1
    /\ parentSaw' = forceApp
    /\ result' \in {"returned", "raised"}
    /\ tempDir' = IF result' = "returned" /\ tempRef /\ tempDir.exists THEN AbsentDir ELSE tempDir
    /\ pkgPc' = "restore"
    /\ UNCHANGED <<transforms, forceApp, backupApp, tempRef, preRun, failedAt>>
    /\ UNCHANGED <<fsVars, mainVars, extVars>>

\* Step 3, the finally block
Restore ==
    /\ pkgPc = "restore"
    /\ IF backupApp.exists
       THEN forceApp' = backupApp /\ backupApp' = AbsentDir
       ELSE UNCHANGED <<forceApp, backupApp>>
    /\ tempDir' = IF tempRef /\ tempDir.exists THEN AbsentDir ELSE tempDir
    /\ pkgPc' = "done"
    /\ UNCHANGED <<transforms, tempRef, preRun, parentCalls, parentSaw, result, failedAt>>
    /\ UNCHANGED <<fsVars, mainVars, extVars>>

PkgNext ==
    \/ BeginRun
    \/ TransformOk \/ TransformNoSource \/ TransformRaises
    \/ SwapRemoveBackup \/ SwapRemoveBackupRaises
    \/ SwapRename \/ SwapRenameRaises
    \/ SwapCopy \/ SwapCopyRaises
    \/ PackageFallback \/ Package \/ Restore

SpecPkg == PkgInit /\ [][PkgNext]_vars

\* C1 (as claimed): when _run_task has exited with transforms configured,
\* force-app holds the tree it held when the task was entered.
C1_OriginalTreeAfterExit ==
    (pkgPc = "done" /\ transforms # <<>>) => forceApp = preRun

\* C2 (as claimed): when the copy of the swap step raised after force-app
\* was renamed to force-app.backup, the original tree is at force-app,
\* unchanged, once the run has completed.
C2_SwapFailureKeepsOriginal ==
    (pkgPc = "done" /\ failedAt = "swap_cp") => forceApp = preRun

\* C3 (as claimed): when pattern application or the swap has failed, the
\* packaging step is still invoked, and it is invoked on the untouched
\* original tree.
C3_FallbackPackagesOriginal ==
    (pkgPc = "done" /\ failedAt # "none") => (parentCalls >= 1 /\ parentSaw = preRun)

----------------------------------------------------------------------------
(* The rewriter and the scan as a state machine: a working directory drawn *)
(* from template entries, rewritten up to MaxRuns times with one identity, *)
(* and scanned.                                                            *)

Dir(p) == [path |-> p, dir |-> TRUE, content |-> <<>>, readable |-> TRUE]
File(p, c) == [path |-> p, dir |-> FALSE, content |-> c, readable |-> TRUE]
Locked(p, c) == [path |-> p, dir |-> FALSE, content |-> c, readable |-> FALSE]

\* entries a working directory may hold
TemplateEntries ==
    { Dir(<<<<"force-app">>, <<"Acme">>>>),
      Dir(<<<<"force-app">>, <<TN>>, <<TN, TL>>>>),
      Dir(<<<<"force-app">>, <<TN, TL>>>>),
      File(<<<<"force-app">>, <<TN>>, <<"a", ".txt">>>>, <<"x">>),
      File(<<<<"force-app">>, <<TN, ".cls">>>>, <<"c", TL>>),
      File(<<<<"force-app">>, <<"Acme", ".cls">>>>, <<TN, "z">>),
      File(<<<<"force-app">>, <<TL, ".txt">>>>, <<"x">>),
      Locked(<<<<"force-app">>, <<"u", ".txt">>>>, <<TN>>),
      Dir(<<<<"robot">>, <<TL>>>>),
      Dir(<<<<"robot">>, <<"Acme", "-", "Co">>>>),
      File(<<<<"orgs">>, <<TN, ".json">>>>, <<"x">>),
      File(<<<<"orgs">>, <<"dev", ".json">>>>, <<TL, " ", TN>>),
      File(<<<<"README", ".md">>>>, <<TN>>),
      File(<<<<"docs">>, <<TN, ".md">>>>, <<TN>>),
      File(<<<<"force-app">>, <<"node_modules">>, <<"a", ".txt">>>>, <<TN>>),
      File(<<<<"force-app">>, <<".git">>, <<"c">>>>, <<TL>>) }

\* the directories that must exist for the entries to exist
Ancestors(n) == {Dir(SubSeq(n.path, 1, k)) : k \in 1..(Len(n.path) - 1)}
Tree(picked) == picked \cup UNION {Ancestors(n) : n \in picked}

WellFormed(t) ==
    /\ \A n, m \in t : n.path = m.path => n = m
    /\ \A n \in t : Len(n.path) > 1 => IsDir(t, Parent(n.path))

InitialTrees ==
    {t \in {Tree(picked) : picked \in {q \in SUBSET TemplateEntries : Cardinality(q) <= MaxPicks}} :
        WellFormed(t)}

Yml(pn, pk, nm) == [exists |-> TRUE, project_name |-> pn, package_name |-> pk, name_managed |-> nm]

YmlFiles ==
    { NoYml,
      Yml(<<TL>>, <<TN>>, <<TL>>),
      Yml(<<"Old", " ", "Name">>, <<"Old">>, <<"Old", " ", "Name">>) }

Identity(pn, pk, nm) == [project_name |-> pn, package_name |-> pk, name_managed |-> nm]

Identities ==
    { Identity(<<"Acme", " ", "Co">>, <<"Acme">>, <<"Acme", " ", "Co">>),
      Identity(<<>>, <<"Acme">>, <<"Acme">>) }

NoScan == [done |-> FALSE, found |-> {}]

\* names in the tree that a rename pass may address
TokenNames(t) ==
    {BaseName(n.path) :
        n \in {m \in UNION {RGlob(t, SEARCH_DIRS[i]) : i \in 1..Len(SEARCH_DIRS)} :
                 IF m.dir THEN HasToken(BaseName(m.path))
                          ELSE Contains(BaseName(m.path), TOKEN_NAME)}}

FsInit ==
    /\ pkgPc = "idle"
    /\ transforms = <<>>
    /\ forceApp = AbsentDir
    /\ backupApp = AbsentDir
    /\ tempDir = AbsentDir
    /\ tempRef = FALSE
    /\ preRun = AbsentDir
    /\ parentCalls = 0
    /\ parentSaw = AbsentDir
    /\ result = "none"
    /\ failedAt = "none"
    /\ fs \in InitialTrees
    /\ yml \in YmlFiles
    /\ ident \in Identities
    /\ runLog = <<>>
    /\ scan = NoScan
    /\ mPc = "idle"
    /\ args = NoArgs
    /\ env = NoEnv
    /\ source = "none"
    /\ typed = <<>>
    /\ prompts = 0
    /\ exitCode = -1
    /\ exitAt = "none"
    /\ derive = DeriveIdle
    /\ zip = ZipIdle
    /\ fork = ForkIdle
    /\ sec = SecIdle
    /\ perm = PermIdle
    /\ cci = CciIdle
    /\ retr = RetrIdle
    /\ orig = AbsentDir

\* one call replace_tokens_in_files(package_name, name_managed, project_name)
Rewrite ==
    /\ Len(runLog) < MaxRuns
    /\ \E failNames \in SUBSET TokenNames(fs) :
         LET r == ReplaceTokensInFiles(fs, yml, ident, failNames)
         IN /\ fs' = r.fs
            /\ yml' = r.yml
            /\ runLog' = Append(runLog, [before |-> fs, ymlBefore |-> yml,
                                         renamed_count |-> r.renamed_count,
                                         updated_count |-> r.updated_count,
                                         renames |-> r.renames,
                                         written |-> r.written,
                                         yml_written |-> r.yml_written,
                                         skipped |-> r.skipped,
                                         attempts |-> r.attempts,
                                         failed |-> failNames])
    /\ scan' = NoScan
    /\ UNCHANGED ident
    /\ UNCHANGED <<pkgVars, mainVars, extVars>>

\* one call check_for_tokens()
Scan ==
    /\ ~scan.done
    /\ scan' = [done |-> TRUE, found |-> CheckForTokens(fs, yml)]
    /\ UNCHANGED <<fs, yml, ident, runLog>>
    /\ UNCHANGED <<pkgVars, mainVars, extVars>>

FsNext == Rewrite \/ Scan

SpecFs == FsInit /\ [][FsNext]_vars

----------------------------------------------------------------------------
(* Properties of the rewriter and the scan                                 *)

LastRun == runLog[Len(runLog)]

\* C4 (as claimed): a second run with the same identity, neither run being
\* refused a rename by the operating system, renames nothing and writes
\* nothing.
C4_SecondRunIsNoOp ==
    (Len(runLog) >= 2 /\ runLog[1].failed = {} /\ runLog[2].failed = {})
        => (runLog[2].renames = {} /\ runLog[2].written = {} /\ ~runLog[2].yml_written)

\* the path p of an entry before a run and the path q of the same entry after
\* it: same name, ancestors possibly renamed by the directory pass
SamePlace(q, p, id) ==
    /\ Len(q) = Len(p)
    /\ BaseName(q) = BaseName(p)
    /\ \A i \in 1..(Len(p) - 1) :
          q[i] \in {p[i], StrReplace(p[i], DirRule(p[i], id).token, DirRule(p[i], id).rep)}

\* the entries of tree t that a rename pass addresses, with their targets
RenameTargets(t, id) ==
    {[src |-> n, dst |-> Parent(n.path) \o <<StrReplace(BaseName(n.path),
                                                        DirRule(BaseName(n.path), id).token,
                                                        DirRule(BaseName(n.path), id).rep)>>] :
        n \in {m \in UNION {RGlob(t, SEARCH_DIRS[i]) : i \in 1..Len(SEARCH_DIRS)} :
                 IF m.dir THEN HasToken(BaseName(m.path))
                          ELSE Contains(BaseName(m.path), TOKEN_NAME)}}

\* the renames of a run whose target existed before the run
Collisions(run, id) ==
    {c \in RenameTargets(run.before, id) : Exists(run.before, c.dst)}

TargetNode(run, c) == CHOOSE m \in run.before : m.path = c.dst

NormId == IF ident.project_name = <<>> THEN [ident EXCEPT !.project_name = ident.name_managed] ELSE ident

TargetSet(t) ==
    UNION {RGlob(t, SEARCH_DIRS[i]) : i \in 1..Len(SEARCH_DIRS)}
    \cup {n \in t : n.path \in ROOT_FILES}
    \cup GlobJson(t, P1("orgs"))

\* a token is left in a name or in a readable content of the target set
TokenLeft(t, y) ==
    \/ \E n \in TargetSet(t) : HasToken(BaseName(n.path))
    \/ \E n \in TargetSet(t) : ~n.dir /\ n.readable /\ HasToken(n.content)
    \/ y.exists /\ HasToken(YmlContent(y))

\* C6 (as claimed): a scan that follows a run and finds nothing means no
\* token is left in any name or content of the target set.
C6_EmptyScanMeansNoTokenLeft ==
    (Len(runLog) >= 1 /\ scan.done /\ scan.found = {}) => ~TokenLeft(fs, yml)

\* C7 (as claimed): the scan has an entry for every scanned readable file
\* whose name or content contains a token, and is empty if there is none.
C7_ScanListsEveryTokenFile ==
    scan.done =>
        /\ \A n \in ScannedFiles(fs) :
              (n.readable /\ (HasToken(BaseName(n.path)) \/ HasToken(n.content)))
                  => \E e \in scan.found : e[1] = n.path
        /\ (~(\E n \in ScannedFiles(fs) : HasToken(BaseName(n.path)) \/ (n.readable /\ HasToken(n.content)))
            /\ ~(yml.exists /\ HasToken(YmlContent(yml))))
              => scan.found = {}

----------------------------------------------------------------------------
(* main() of scripts/setup_new_project.py                                  *)

\* Python: a or b, on texts
Or(a, b) == IF a # <<>> THEN a ELSE b

\* str.strip(): leading and trailing blanks removed
RECURSIVE LStrip(_)
LStrip(s) == IF s # <<>> /\ Head(s) = " " THEN LStrip(Tail(s)) ELSE s
RECURSIVE RStrip(_)
RStrip(s) == IF s # <<>> /\ s[Len(s)] = " " THEN RStrip(SubSeq(s, 1, Len(s) - 1)) ELSE s
Strip(s) == RStrip(LStrip(s))

\* str.lower() on the repository slugs the model uses
Lower(slug) ==
    IF slug = "SDBingham/Standard-Unlocked-Shulman"
    THEN "sdbingham/standard-unlocked-shulman"
    ELSE slug

TEMPLATE_REPOS == {"sdbingham/standard-unlocked-shulman", "sdbingham/standardunlockedshulman"}

RepoName == Or(args.repo_name, Or(env.GITHUB_REPOSITORY_NAME, env.REPO_NAME))
NonInteractive == args.non_interactive \/ env.CI = "true"

Complete(id) == id.project_name # <<>> /\ id.package_name # <<>> /\ id.name_managed # <<>>
NoIdentity == Identity(<<>>, <<>>, <<>>)

\* derive_project_values without the underscore replacement
DeriveProjectValuesHyphenOnly(repo_name) ==
    LET project_name == StrReplace(repo_name, <<"-">>, <<" ">>)
        package_name == StrReplace(StrReplace(repo_name, <<"-">>, <<>>), <<" ">>, <<>>)
    IN [project_name |-> project_name, package_name |-> package_name,
        name_managed |-> project_name]

\* derive_project_values(repo_name)
DeriveProjectValues(repo_name) ==
    LET project_name == StrReplace(StrReplace(repo_name, <<"-">>, <<" ">>), <<"_">>, <<" ">>)
        package_name == StrReplace(StrReplace(StrReplace(repo_name, <<"-">>, <<>>),
                                              <<"_">>, <<>>), <<" ">>, <<>>)
    IN Identity(project_name, package_name, project_name)

\* get_project_values_from_cumulusci()
GetProjectValuesFromCumulusci(y) ==
    IF ~y.exists THEN NoIdentity
    ELSE Identity(Strip(y.project_name), WordPrefix(y.package_name), Strip(y.name_managed))

\* the values derived from the project name typed at the prompt
PromptIdentity(project_name) ==
    Identity(project_name, StrReplace(project_name, <<" ">>, <<>>),
             StrReplace(project_name, <<" ">>, <<"-">>))

\* "Determine project values", with the yml-first order of priorities
ResolveIdentityYmlFirst ==
    LET v == GetProjectValuesFromCumulusci(yml)
    IN IF args.project_name # <<>> /\ args.package_name # <<>> /\ args.name_managed # <<>>
       THEN [source |-> "explicit",
             identity |-> Identity(args.project_name, args.package_name, args.name_managed)]
       ELSE IF Complete(v) /\ ~HasToken(v.project_name) /\ ~HasToken(v.package_name)
               /\ ~HasToken(v.name_managed)
       THEN [source |-> "yml", identity |-> v]
       ELSE IF RepoName # <<>>
       THEN [source |-> "repo", identity |-> DeriveProjectValues(RepoName)]
       ELSE [source |-> "none", identity |-> NoIdentity]

\* "Determine project values": explicit arguments, else repository name,
\* else cumulusci.yml
ResolveIdentity ==
    IF args.project_name # <<>> /\ args.package_name # <<>> /\ args.name_managed # <<>>
    THEN [source |-> "explicit",
          identity |-> Identity(args.project_name, args.package_name, args.name_managed)]
    ELSE IF RepoName # <<>>
    THEN [source |-> "repo", identity |-> DeriveProjectValues(RepoName)]
    ELSE LET v == GetProjectValuesFromCumulusci(yml)
         IN IF Complete(v)
            THEN IF HasToken(v.project_name) \/ HasToken(v.package_name) \/ HasToken(v.name_managed)
                 THEN [source |-> "none", identity |-> NoIdentity]
                 ELSE [source |-> "yml", identity |-> v]
            ELSE [source |-> "none", identity |-> v]

\* the token check of the template warning over cumulusci.yml, README.md and
\* .gitignore; a file that cannot be read ends the check
RECURSIVE KeyFilesHaveTokens(_, _)
KeyFilesHaveTokens(t, files) ==
    IF files = <<>> THEN FALSE
    ELSE LET here == {n \in t : n.path = Head(files) /\ ~n.dir}
         IN IF here = {} THEN KeyFilesHaveTokens(t, Tail(files))
            ELSE LET n == CHOOSE m \in here : TRUE
                 IN IF ~n.readable THEN FALSE
                    ELSE IF HasToken(n.content) THEN TRUE
                    ELSE KeyFilesHaveTokens(t, Tail(files))

HasTemplateTokens ==
    HasToken(YmlContent(yml))
    \/ KeyFilesHaveTokens(fs, <<P1("README.md"), P1(".gitignore")>>)

Exit(code, at) == mPc' = "exit" /\ exitCode' = code /\ exitAt' = at

\* the protection comparing GITHUB_REPOSITORY as it is spelled
TemplateProtectionCaseSensitive ==
    /\ mPc = "start"
    /\ IF NonInteractive /\ env.GITHUB_REPOSITORY \in TEMPLATE_REPOS
       THEN Exit(1, "template_protection")
       ELSE mPc' = "warn" /\ UNCHANGED <<exitCode, exitAt>>
    /\ UNCHANGED <<args, env, source, typed, prompts, fsVars, pkgVars, extVars>>

\* the template-repository protection of CI mode
TemplateProtection ==
    /\ mPc = "start"
    /\ IF NonInteractive /\ Lower(env.GITHUB_REPOSITORY) \in TEMPLATE_REPOS
       THEN Exit(1, "template_protection")
       ELSE mPc' = "warn" /\ UNCHANGED <<exitCode, exitAt>>
    /\ UNCHANGED <<args, env, source, typed, prompts, fsVars, pkgVars, extVars>>

\* the interactive template warning
TemplateWarning ==
    /\ mPc = "warn"
    /\ IF yml.exists /\ RepoName = <<>> /\ args.project_name = <<>>
          /\ HasTemplateTokens /\ ~NonInteractive
       THEN \E confirm \in {"y", "n"} :
              /\ prompts' = prompts + 1
              /\ IF confirm # "y"
                 THEN Exit(0, "template_warning")
                 ELSE mPc' = "resolve" /\ UNCHANGED <<exitCode, exitAt>>
       ELSE mPc' = "resolve" /\ UNCHANGED <<prompts, exitCode, exitAt>>
    /\ UNCHANGED <<args, env, source, typed, fsVars, pkgVars, extVars>>

\* priorities 1 to 3
Resolve ==
    /\ mPc = "resolve"
    /\ ident' = ResolveIdentity.identity
    /\ source' = ResolveIdentity.source
    /\ mPc' = "prompt"
    /\ UNCHANGED <<args, env, typed, prompts, exitCode, exitAt, fs, yml, runLog, scan, pkgVars, extVars>>

\* project names a user may type
TypedNames == {<<>>, <<" ">>, <<"My", " ", "App">>, <<"My", "-", "App">>}

\* "If we still don't have values", prompting also in non-interactive mode
PromptIfMissingAlways ==
    /\ mPc = "prompt"
    /\ IF Complete(ident)
       THEN mPc' = "confirm" /\ UNCHANGED <<ident, source, typed, prompts, exitCode, exitAt>>
       ELSE \E t \in TypedNames :
              /\ prompts' = prompts + 1
              /\ typed' = t
              /\ IF Strip(t) = <<>>
                 THEN Exit(1, "name_required") /\ UNCHANGED <<ident, source>>
                 ELSE /\ ident' = PromptIdentity(Strip(t))
                      /\ source' = "prompt"
                      /\ mPc' = "confirm"
                      /\ UNCHANGED <<exitCode, exitAt>>
    /\ UNCHANGED <<args, env, fs, yml, runLog, scan, pkgVars, extVars>>

\* "If we still don't have values, prompt (unless non-interactive)"
PromptIfMissing ==
    /\ mPc = "prompt"
    /\ IF Complete(ident)
       THEN mPc' = "confirm" /\ UNCHANGED <<ident, source, typed, prompts, exitCode, exitAt>>
       ELSE IF NonInteractive
       THEN Exit(1, "resolution") /\ UNCHANGED <<ident, source, typed, prompts>>
       ELSE \E t \in TypedNames :
              /\ prompts' = prompts + 1
              /\ typed' = t
              /\ IF Strip(t) = <<>>
                 THEN Exit(1, "name_required") /\ UNCHANGED <<ident, source>>
                 ELSE /\ ident' = PromptIdentity(Strip(t))
                      /\ source' = "prompt"
                      /\ mPc' = "confirm"
                      /\ UNCHANGED <<exitCode, exitAt>>
    /\ UNCHANGED <<args, env, fs, yml, runLog, scan, pkgVars, extVars>>

\* "Confirm (unless non-interactive)"
Confirm ==
    /\ mPc = "confirm"
    /\ IF ~NonInteractive
       THEN \E confirm \in {"y", "n"} :
              /\ prompts' = prompts + 1
              /\ IF confirm # "y"
                 THEN Exit(0, "declined")
                 ELSE mPc' = "replace" /\ UNCHANGED <<exitCode, exitAt>>
       ELSE mPc' = "replace" /\ UNCHANGED <<prompts, exitCode, exitAt>>
    /\ UNCHANGED <<args, env, source, typed, fsVars, pkgVars, extVars>>

\* renamed_count, updated_count = replace_tokens_in_files(...)
MainReplace ==
    /\ mPc = "replace"
    /\ \E failNames \in SUBSET TokenNames(fs) :
         LET r == ReplaceTokensInFiles(fs, yml, ident, failNames)
         IN /\ fs' = r.fs
            /\ yml' = r.yml
            /\ runLog' = Append(runLog, [before |-> fs, ymlBefore |-> yml,
                                         renamed_count |-> r.renamed_count,
                                         updated_count |-> r.updated_count,
                                         renames |-> r.renames,
                                         written |-> r.written,
                                         yml_written |-> r.yml_written,
                                         skipped |-> r.skipped,
                                         attempts |-> r.attempts,
                                         failed |-> failNames])
    /\ mPc' = "check"
    /\ UNCHANGED <<ident, scan, args, env, source, typed, prompts, exitCode, exitAt, pkgVars, extVars>>

\* MainCheck with leftover tokens treated as a failure
MainCheckStrict ==
    /\ mPc = "check"
    /\ scan' = [done |-> TRUE, found |-> CheckForTokens(fs, yml)]
    /\ IF CheckForTokens(fs, yml) # {} THEN Exit(1, "complete") ELSE Exit(0, "complete")
    /\ UNCHANGED <<fs, yml, ident, runLog, args, env, source, typed, prompts, pkgVars, extVars>>

\* tokens_found = check_for_tokens(), the summary, normal termination
MainCheck ==
    /\ mPc = "check"
    /\ scan' = [done |-> TRUE, found |-> CheckForTokens(fs, yml)]
    /\ Exit(0, "complete")
    /\ UNCHANGED <<fs, yml, ident, runLog, args, env, source, typed, prompts, pkgVars, extVars>>

\* command lines, environments and working directories main() is started in
RepoNames == {<<>>, <<"My", "-", "Proj">>, <<"-">>, <<"my", ".", "proj">>}

ArgsChoices ==
    {Args(repo, ni, pn, pk, nm) :
        repo \in RepoNames, ni \in BOOLEAN,
        pn \in {<<>>, <<"Exp", " ", "Name">>},
        pk \in {<<>>, <<"ExpPkg">>},
        nm \in {<<>>, <<"Exp", " ", "Managed">>}}

EnvChoices ==
    {Env(grn, rn, ci, gr) :
        grn \in {<<>>, <<"Env", "_", "Repo">>},
        rn \in {<<>>, <<"Other">>},
        ci \in {"", "true"},
        gr \in {"", "SDBingham/Standard-Unlocked-Shulman", "me/my-proj"}}

MainYmlFiles ==
    { NoYml,
      Yml(<<TL>>, <<TN>>, <<TL>>),
      Yml(<<"Old", " ", "Name">>, <<"Old">>, <<"Old", " ", "Name">>),
      Yml(<<"Old", " ", "Name">>, <<>>, <<>>) }

MainTrees ==
    { Tree({}),
      Tree({File(<<<<"README", ".md">>>>, <<TN>>),
            File(<<<<"force-app">>, <<TN, ".cls">>>>, <<"c", TL>>)}) }

MainInit ==
    /\ mPc = "start"
    /\ args \in ArgsChoices
    /\ env \in EnvChoices
    /\ source = "none"
    /\ typed = <<>>
    /\ prompts = 0
    /\ exitCode = -1
    /\ exitAt = "none"
    /\ fs \in MainTrees
    /\ yml \in MainYmlFiles
    /\ ident = NoIdentity
    /\ runLog = <<>>
    /\ scan = NoScan
    /\ pkgPc = "idle"
    /\ transforms = <<>>
    /\ forceApp = AbsentDir
    /\ backupApp = AbsentDir
    /\ tempDir = AbsentDir
    /\ tempRef = FALSE
    /\ preRun = AbsentDir
    /\ parentCalls = 0
    /\ parentSaw = AbsentDir
    /\ result = "none"
    /\ failedAt = "none"
    /\ derive = DeriveIdle
    /\ zip = ZipIdle
    /\ fork = ForkIdle
    /\ sec = SecIdle
    /\ perm = PermIdle
    /\ cci = CciIdle
    /\ retr = RetrIdle
    /\ orig = AbsentDir

MainNext ==
    \/ TemplateProtection \/ TemplateWarning \/ Resolve \/ PromptIfMissing
    \/ Confirm \/ MainReplace \/ MainCheck

SpecMain == MainInit /\ [][MainNext]_vars

----------------------------------------------------------------------------
(* Properties of the identity resolution                                   *)

AllExplicit == args.project_name # <<>> /\ args.package_name # <<>> /\ args.name_managed # <<>>
ExplicitIdentity == Identity(args.project_name, args.package_name, args.name_managed)

\* cumulusci.yml yields three values and none of them holds a token
YmlUsable ==
    LET v == GetProjectValuesFromCumulusci(yml)
    IN Complete(v) /\ ~HasToken(v.project_name) /\ ~HasToken(v.package_name)
       /\ ~HasToken(v.name_managed)

\* the identity is settled and nothing has been rewritten yet
IdentitySettled == mPc \in {"confirm", "replace"}

\* C8 (as claimed): the identity comes from the first available source of:
\* all three explicit fields, the repository name, a token-free cumulusci.yml,
\* the prompt.
C8_HighestPrioritySource ==
    IdentitySettled =>
        IF AllExplicit THEN source = "explicit" /\ ident = ExplicitIdentity
        ELSE IF RepoName # <<>> THEN source = "repo" /\ ident = DeriveProjectValues(RepoName)
        ELSE IF YmlUsable THEN source = "yml" /\ ident = GetProjectValuesFromCumulusci(yml)
        ELSE source = "prompt" /\ ident = PromptIdentity(Strip(typed))

\* C8 (amended): as claimed, except that a repository name whose derived
\* values are incomplete (an empty package name) leads to the prompt, never
\* to cumulusci.yml.
C8_PriorityWithIncompleteRepoName ==
    IdentitySettled =>
        IF AllExplicit THEN source = "explicit" /\ ident = ExplicitIdentity
        ELSE IF RepoName # <<>>
        THEN IF Complete(DeriveProjectValues(RepoName))
             THEN source = "repo" /\ ident = DeriveProjectValues(RepoName)
             ELSE source = "prompt" /\ ident = PromptIdentity(Strip(typed))
        ELSE IF YmlUsable THEN source = "yml" /\ ident = GetProjectValuesFromCumulusci(yml)
        ELSE source = "prompt" /\ ident = PromptIdentity(Strip(typed))

\* the repository name won over a usable cumulusci.yml
C8_Witness ==
    /\ mPc = "replace" /\ source = "repo" /\ YmlUsable /\ ~AllExplicit
    /\ ident # GetProjectValuesFromCumulusci(yml)

\* C9 (as claimed): with a repository name given, each explicit option that
\* is supplied is the value used, whether or not all three are supplied.
C9_ExplicitOptionOverridesDerived ==
    (IdentitySettled /\ RepoName # <<>>) =>
        /\ (args.project_name # <<>> => ident.project_name = args.project_name)
        /\ (args.package_name # <<>> => ident.package_name = args.package_name)
        /\ (args.name_managed # <<>> => ident.name_managed = args.name_managed)

\* C10: in non-interactive mode no prompt is ever reached, and a run that has
\* no complete identity rewrites nothing and ends with exit status 1.
C10_NonInteractiveNeverPrompts ==
    NonInteractive =>
        /\ prompts = 0
        /\ (mPc \in {"confirm", "replace", "check"} => Complete(ident))
        /\ ((mPc = "exit" /\ ~Complete(ident)) => (exitCode = 1 /\ runLog = <<>>))

\* a non-interactive run ended because no source gave a complete identity
C10_Witness ==
    NonInteractive /\ mPc = "exit" /\ exitAt = "resolution" /\ exitCode = 1 /\ prompts = 0

----------------------------------------------------------------------------
(* derive_project_values as a call on its own                              *)

MaxNameLen == 3    \* atoms in a repository name

\* the atoms repository names are made of
NameAtoms == {"My", "Name", "-", "_", " "}

RECURSIVE SeqsUpTo(_, _)
SeqsUpTo(S, n) ==
    IF n = 0 THEN {<<>>}
    ELSE LET shorter == SeqsUpTo(S, n - 1)
         IN shorter \cup {Append(s, a) : s \in {x \in shorter : Len(x) = n - 1}, a \in S}

\* the repository names derive_project_values is called with
DeriveInputs ==
    SeqsUpTo(NameAtoms, MaxNameLen) \cup {<<"My", "-", "Project", "_", "Name">>}

DeriveInit ==
    /\ derive \in {DeriveStart(n) : n \in DeriveInputs}
    /\ zip = ZipIdle
    /\ fork = ForkIdle
    /\ sec = SecIdle
    /\ perm = PermIdle
    /\ cci = CciIdle
    /\ retr = RetrIdle
    /\ orig = AbsentDir
    /\ fs = {}
    /\ yml = NoYml
    /\ ident = NoIdentity
    /\ runLog = <<>>
    /\ scan = NoScan
    /\ pkgPc = "idle"
    /\ transforms = <<>>
    /\ forceApp = AbsentDir
    /\ backupApp = AbsentDir
    /\ tempDir = AbsentDir
    /\ tempRef = FALSE
    /\ preRun = AbsentDir
    /\ parentCalls = 0
    /\ parentSaw = AbsentDir
    /\ result = "none"
    /\ failedAt = "none"
    /\ mPc = "idle"
    /\ args = NoArgs
    /\ env = NoEnv
    /\ source = "none"
    /\ typed = <<>>
    /\ prompts = 0
    /\ exitCode = -1
    /\ exitAt = "none"

\* project_name, package_name, name_managed = derive_project_values(repo_name)
Derive ==
    /\ derive.pc = "start"
    /\ derive' = [derive EXCEPT !.pc = "done", !.values = DeriveProjectValues(derive.repo_name)]
    /\ UNCHANGED <<zip, fork, sec, perm, cci, retr, orig, fsVars, pkgVars, mainVars>>

DeriveNext == Derive

SpecDerive == DeriveInit /\ [][DeriveNext]_vars

\* the separators of a repository name
IsHyphenOrUnderscore(a) == a \in {"-", "_"}
IsSeparator(a) == a \in {"-", "_", " "}
NotSeparator(a) == ~IsSeparator(a)

\* C11: derive_project_values returns the name with every '-' and '_' turned
\* into a space as project_name, the name without any '-', '_' or space as
\* package_name, and project_name again as name_managed; "My-Project_Name"
\* gives "My Project Name" and "MyProjectName".
C11_DerivedValues ==
    derive.pc = "done" =>
        LET n == derive.repo_name
            v == derive.values
        IN /\ v.project_name = [i \in 1..Len(n) |-> IF IsHyphenOrUnderscore(n[i]) THEN " " ELSE n[i]]
           /\ v.package_name = SelectSeq(n, NotSeparator)
           /\ v.name_managed = v.project_name
           /\ (n = <<"My", "-", "Project", "_", "Name">> =>
                 /\ v.project_name = <<"My", " ", "Project", " ", "Name">>
                 /\ v.package_name = <<"My", "Project", "Name">>)

\* a name holding a hyphen, an underscore and a space has been derived from
C11_Witness ==
    /\ derive.pc = "done"
    /\ \E i, j, k \in 1..Len(derive.repo_name) :
          derive.repo_name[i] = "-" /\ derive.repo_name[j] = "_" /\ derive.repo_name[k] = " "

----------------------------------------------------------------------------
(* Properties of the identity handed to the rewriter, and of the exit      *)
(* status                                                                  *)

\* a text usable as an API name: not empty, no space, hyphen, dot or other
\* character outside \w
ApiSafe(s) == s # <<>> /\ \A i \in 1..Len(s) : s[i] \notin NonWordAtoms

\* C12 (as claimed): the package_name of every identity that reaches
\* replace_tokens_in_files is an API-safe identifier.
C12_PackageNameIsApiSafe ==
    mPc = "replace" => ApiSafe(ident.package_name)

\* C13 (as claimed): the hyphenated label that replaces __PROJECT_LABEL__ is
\* the resolved project_name with each space turned into a hyphen.
C13_LabelIsHyphenatedProjectName ==
    mPc = "replace" =>
        Hyphenated(ident.name_managed) = StrReplace(ident.project_name, <<" ">>, <<"-">>)

\* C17: main ends with status 0 when the run completes or a confirmation is
\* declined, whatever the scan found and whichever renames failed, and with
\* status 1 when no identity could be resolved.
C17_ExitStatus ==
    mPc = "exit" =>
        /\ exitCode \in {0, 1}
        /\ (exitAt \in {"complete", "declined", "template_warning"} => exitCode = 0)
        /\ (exitAt \in {"resolution", "name_required"} => exitCode = 1)
        /\ (runLog # <<>> => (exitCode = 0 /\ exitAt = "complete"))

\* a run completed although a rename was refused and the scan found tokens
C17_Witness ==
    /\ mPc = "exit" /\ exitAt = "complete" /\ exitCode = 0
    /\ runLog # <<>> /\ runLog[Len(runLog)].failed # {}
    /\ scan.done /\ scan.found # {}

----------------------------------------------------------------------------
(* FindReplaceWithFilename.process as a call on its own                    *)

MaxEntries == 2    \* entries in the archive handed to process

\* entries an archive may hold
ZipEntryPool ==
    { Entry(<<TN, "Home", ".page">>, <<TN>>),
      Entry(<<"classes", "/", "A", ".cls">>, <<"x", TL>>),
      Entry(<<TL, ".txt">>, <<"y">>),
      Entry(<<"Acme", ".cls">>, <<"Acme">>) }

\* archives built from a directory: no two entries of the same name
ZipArchives ==
    {zf \in SeqsUpTo(ZipEntryPool, MaxEntries) :
        \A i, j \in 1..Len(zf) : zf[i].name = zf[j].name => i = j}

\* self.options.patterns
ZipPatternLists ==
    { <<>>,
      <<Pattern(TOKEN_NAME, <<"Acme">>)>>,
      <<Pattern(TOKEN_NAME, <<"Acme">>), Pattern(TOKEN_LABEL, <<"Acme", "-", "Co">>)>>,
      <<Pattern(TOKEN_NAME, <<"Acme">>), Pattern(<<"Acme">>, <<"Beta">>)>>,
      <<Pattern(<<>>, <<"X">>), Pattern(TOKEN_NAME, <<"Acme">>)>> }

ZipInit ==
    /\ zip \in {ZipStart(zf, pats) : zf \in ZipArchives, pats \in ZipPatternLists}
    /\ derive = DeriveIdle
    /\ fork = ForkIdle
    /\ sec = SecIdle
    /\ perm = PermIdle
    /\ cci = CciIdle
    /\ retr = RetrIdle
    /\ orig = AbsentDir
    /\ fs = {}
    /\ yml = NoYml
    /\ ident = NoIdentity
    /\ runLog = <<>>
    /\ scan = NoScan
    /\ pkgPc = "idle"
    /\ transforms = <<>>
    /\ forceApp = AbsentDir
    /\ backupApp = AbsentDir
    /\ tempDir = AbsentDir
    /\ tempRef = FALSE
    /\ preRun = AbsentDir
    /\ parentCalls = 0
    /\ parentSaw = AbsentDir
    /\ result = "none"
    /\ failedAt = "none"
    /\ mPc = "idle"
    /\ args = NoArgs
    /\ env = NoEnv
    /\ source = "none"
    /\ typed = <<>>
    /\ prompts = 0
    /\ exitCode = -1
    /\ exitAt = "none"

\* zip_dest = transform.process(zf, context)
ProcessArchive ==
    /\ zip.pc = "start"
    /\ zip' = [zip EXCEPT !.pc = "done", !.out = Process(zip.zf, zip.patterns)]
    /\ UNCHANGED <<derive, fork, sec, perm, cci, retr, orig, fsVars, pkgVars, mainVars>>

ZipNext == ProcessArchive

SpecZip == ZipInit /\ [][ZipNext]_vars

\* the name after the first k patterns: pattern k applied to what the
\* patterns before it produced, patterns without find left out
RECURSIVE NameAfter(_, _, _)
NameAfter(name, patterns, k) ==
    IF k = 0 THEN name
    ELSE LET before == NameAfter(name, patterns, k - 1)
         IN IF patterns[k].find = <<>> THEN before
            ELSE StrReplace(before, patterns[k].find, patterns[k].replace)

\* C14: process returns one entry per input entry, in order, with the content
\* the content step produced and with the name every pattern that has a find
\* was applied to in list order; "__PROJECT_NAME__Home.page" holding
\* "__PROJECT_NAME__" becomes "AcmeHome.page" holding "Acme".
C14_ProcessRenamesEveryEntry ==
    zip.pc = "done" =>
        /\ Len(zip.out) = Len(zip.zf)
        /\ \A i \in 1..Len(zip.zf) :
              /\ zip.out[i].content = FindReplaceContent(zip.zf[i].content, zip.patterns)
              /\ zip.out[i].name = NameAfter(zip.zf[i].name, zip.patterns, Len(zip.patterns))
              /\ (/\ zip.zf[i] = Entry(<<TN, "Home", ".page">>, <<TN>>)
                  /\ zip.patterns = <<Pattern(TOKEN_NAME, <<"Acme">>)>>)
                   => zip.out[i] = Entry(<<"Acme", "Home", ".page">>, <<"Acme">>)

\* an entry was renamed by two patterns in a row, the second seeing the
\* output of the first
C14_Witness ==
    /\ zip.pc = "done"
    /\ zip.patterns = <<Pattern(TOKEN_NAME, <<"Acme">>), Pattern(<<"Acme">>, <<"Beta">>)>>
    /\ \E i \in 1..Len(zip.out) :
          zip.zf[i].name = <<TN, "Home", ".page">> /\ zip.out[i].name = <<"Beta", "Home", ".page">>

----------------------------------------------------------------------------
(* Frame of replace_tokens_in_files                                        *)

\* the path lies in the enumerated target set: below a search directory, a
\* root file, or a .json file directly in orgs (cumulusci.yml is kept apart
\* from the tree in this model)
InTargetSet(p) ==
    \/ Len(p) >= 2 /\ \E i \in 1..Len(SEARCH_DIRS) : p[1] = SEARCH_DIRS[i][1]
    \/ p \in ROOT_FILES
    \/ Len(p) = 2 /\ p[1] = <<"orgs">> /\ p[2] # <<>> /\ p[2][Len(p[2])] = ".json"

\* the path lies under a directory named .git
UnderGit(p) == \E i \in 1..(Len(p) - 1) : p[i] = <<".git">>

\* the path holds __pycache__, .pyc or node_modules
HasSkipPattern(p) ==
    \E i \in 1..Len(p) : \E j \in 1..Len(p[i]) : p[i][j] \in {"__pycache__", ".pyc", "node_modules"}

\* C15: a run leaves every path outside the target set as it was, renames and
\* writes inside the target set only, writes no file under .git or with
\* __pycache__, .pyc or node_modules in its path, and writes a file only
\* with a content that differs from the one it had.
C15_TouchesOnlyTheTargetSet ==
    Len(runLog) >= 1 =>
        /\ {n \in fs : ~InTargetSet(n.path)} = {n \in LastRun.before : ~InTargetSet(n.path)}
        /\ \A r \in LastRun.renames : InTargetSet(r.src) /\ InTargetSet(r.dst)
        /\ \A p \in LastRun.written :
              /\ InTargetSet(p)
              /\ ~UnderGit(p) /\ ~HasSkipPattern(p)
              /\ \E n \in fs : \E m \in LastRun.before :
                    /\ n.path = p /\ ~m.dir /\ Len(m.path) = Len(p)
                    /\ n.content = ReplaceContentTokens(m.content, NormId)
                    /\ n.content # m.content

\* a run wrote a file and left alone a token-bearing file outside the target
\* set and token-bearing files under node_modules and .git
C15_Witness ==
    /\ Len(runLog) >= 1 /\ LastRun.written # {}
    /\ \E n \in fs : ~n.dir /\ HasToken(n.content)
                     /\ (~InTargetSet(n.path) \/ UnderGit(n.path) \/ HasSkipPattern(n.path))

\* C16 (as claimed): the file pass matches names as the directory pass does:
\* after a run in which no rename was refused or skipped for a collision, no
\* file below a search directory has __PROJECT_NAME__ or __PROJECT_LABEL__ in
\* its name.
C16_FilePassMatchesBothTokens ==
    (Len(runLog) >= 1 /\ LastRun.failed = {} /\ LastRun.skipped = {}) =>
        \A n \in UNION {RGlob(fs, SEARCH_DIRS[i]) : i \in 1..Len(SEARCH_DIRS)} :
            ~n.dir => ~HasToken(BaseName(n.path))

----------------------------------------------------------------------------
(* setup_new_project.py (repository root): fork_repository                  *)

\* the repository being forked (remote_info['repo'] of main)
source_repo == "Standard-Unlocked-Shulman"

\* new_repo_name as main passes it: non-empty and matching
\* ^[a-zA-Z0-9._-]+$; it may be the name of the source repository
NewRepoNames == {"my-new-project", "acme-crm", source_repo}

\* max_attempts = 30
max_attempts == 30

\* the error messages of the result dictionaries, without their variable tail
ErrAuthentication == "Authentication failed. Please check your token."
ErrPermission == "Permission denied"
ErrNotFound == "Repository not found or not accessible"
ErrForkFailed == "Fork failed"
ErrOwner == "Could not determine fork owner"
ErrRename == "Rename failed"
ErrRenameExisting == "Could not rename existing fork"
ErrTimeout == "Request timed out. Please try again."
ErrRequest == "API request failed"
ErrUnexpected == "Unexpected error"

\* what the outer handlers return when json() of a response with an
\* unparsable body raises: the exception class depends on the installed
\* requests version (a RequestException subclass, or a plain ValueError)
JsonErrors == {ErrRequest, ErrUnexpected}

\* what a request made with a timeout can raise, and one made without
RaisedWithTimeout == {ErrTimeout, ErrRequest}
RaisedWithoutTimeout == {ErrRequest}

\* a return statement of fork_repository
ForkReturn(f, at, success, error, repo) ==
    [f EXCEPT !.pc = "done", !.returned_at = at, !.success = success,
              !.error = error, !.repo = repo]

\* one more call of the given kind
Called(f, kind) == [f.calls EXCEPT ![kind] = @ + 1]

\* the test of line 308 on the message of a 422 response
\* ("already exists" in error_msg.lower())
RecoveryAlways(body) == TRUE
RecoveryApplies(body) == body = "already exists"

ForkInit ==
    /\ fork \in {ForkStart(n) : n \in NewRepoNames}
    /\ derive = DeriveIdle
    /\ zip = ZipIdle
    /\ sec = SecIdle
    /\ perm = PermIdle
    /\ cci = CciIdle
    /\ retr = RetrIdle
    /\ orig = AbsentDir
    /\ fs = {}
    /\ yml = NoYml
    /\ ident = NoIdentity
    /\ runLog = <<>>
    /\ scan = NoScan
    /\ pkgPc = "idle"
    /\ transforms = <<>>
    /\ forceApp = AbsentDir
    /\ backupApp = AbsentDir
    /\ tempDir = AbsentDir
    /\ tempRef = FALSE
    /\ preRun = AbsentDir
    /\ parentCalls = 0
    /\ parentSaw = AbsentDir
    /\ result = "none"
    /\ failedAt = "none"
    /\ mPc = "idle"
    /\ args = NoArgs
    /\ env = NoEnv
    /\ source = "none"
    /\ typed = <<>>
    /\ prompts = 0
    /\ exitCode = -1
    /\ exitAt = "none"

\* response = requests.post(fork_url, ..., timeout=30) and the branch on its
\* status code that needs no further call (lines 204-206, 285-308, 350-380)
ForkPost ==
    /\ fork.pc = "start"
    /\ \E status \in {"202", "401", "403", "404", "422", "500", "raised"} :
       \E body \in {"owner", "message", "already exists", "empty", "not json"} :
         LET f == [fork EXCEPT !.post_status = status, !.post_body = body,
                               !.calls = Called(fork, "post")]
         IN  CASE status = "raised" ->
                    /\ body = "empty"
                    /\ \E e \in RaisedWithTimeout :
                         fork' = ForkReturn(f, "post raised", FALSE, e, "")
               [] status = "202" ->
                    /\ body \in {"owner", "not json"}
                    /\ fork' = [f EXCEPT !.pc = IF body = "owner" THEN "poll"
                                                ELSE "owner"]
               [] status = "401" ->
                    /\ body = "message"
                    /\ fork' = ForkReturn(f, "401", FALSE, ErrAuthentication, "")
               [] status = "403" ->
                    /\ body \in {"message", "empty", "not json"}
                    /\ IF body = "not json"
                       THEN \E e \in JsonErrors :
                              fork' = ForkReturn(f, "403", FALSE, e, "")
                       ELSE fork' = ForkReturn(f, "403", FALSE, ErrPermission, "")
               [] status = "404" ->
                    /\ body = "message"
                    /\ fork' = ForkReturn(f, "404", FALSE, ErrNotFound, "")
               [] status = "422" ->
                    /\ body \in {"message", "already exists", "not json"}
                    /\ IF RecoveryApplies(body)
                       THEN fork' = [f EXCEPT !.pc = "recover user",
                                              !.already_exists = TRUE]
                       ELSE fork' = ForkReturn(f, "422", FALSE, ErrForkFailed, "")
               [] OTHER ->
                    /\ body \in {"message", "not json"}
                    /\ fork' = ForkReturn(f, "other status", FALSE, ErrForkFailed, "")
    /\ UNCHANGED <<derive, zip, sec, perm, cci, retr, orig, fsVars, pkgVars, mainVars>>

\* the owner is not in the 202 response: requests.get(/user, timeout=10)
\* (lines 211-220)
ForkOwnerFromUser ==
    /\ fork.pc = "owner"
    /\ \E status \in {"200", "401", "raised"} :
         LET f == [fork EXCEPT !.user_status = status,
                               !.calls = Called(fork, "user")]
         IN  CASE status = "200" -> fork' = [f EXCEPT !.pc = "poll"]
               [] status = "401" ->
                    fork' = ForkReturn(f, "owner", FALSE, ErrOwner, "")
               [] OTHER ->
                    \E e \in RaisedWithTimeout :
                      fork' = ForkReturn(f, "owner raised", FALSE, e, "")
    /\ UNCHANGED <<derive, zip, sec, perm, cci, retr, orig, fsVars, pkgVars, mainVars>>

\* where the for statement goes after an iteration that did not break
AfterAttempt(attempt) == IF attempt < max_attempts THEN "poll" ELSE "rename"

\* one iteration whose 200 does not leave the loop
ForkPollNoBreak ==
    /\ fork.pc = "poll"
    /\ fork.attempt < max_attempts
    /\ \E status \in {"200", "404", "raised"} :
         fork' = [fork EXCEPT
                    !.attempt = @ + 1,
                    !.calls = Called(fork, "poll"),
                    !.fork_ready = @ \/ status = "200",
                    !.ok_polls = IF status = "200" THEN @ + 1 ELSE @,
                    !.pc = AfterAttempt(fork.attempt + 1)]
    /\ UNCHANGED <<derive, zip, sec, perm, cci, retr, orig, fsVars, pkgVars, mainVars>>

\* one iteration of for attempt in range(max_attempts): sleep, GET the fork,
\* break at 200; a RequestException (a timeout is one) is swallowed
\* (lines 227-238)
ForkPoll ==
    /\ fork.pc = "poll"
    /\ fork.attempt < max_attempts
    /\ \E status \in {"200", "404", "raised"} :
         fork' = [fork EXCEPT
                    !.attempt = @ + 1,
                    !.calls = Called(fork, "poll"),
                    !.fork_ready = @ \/ status = "200",
                    !.ok_polls = IF status = "200" THEN @ + 1 ELSE @,
                    !.pc = IF status = "200" THEN "rename"
                           ELSE AfterAttempt(fork.attempt + 1)]
    /\ UNCHANGED <<derive, zip, sec, perm, cci, retr, orig, fsVars, pkgVars, mainVars>>

\* if new_repo_name and new_repo_name != source_repo (line 244)
RenameWanted(f) == f.new_repo_name # "" /\ f.new_repo_name # source_repo

\* Step 2 with a rename: requests.patch(rename_url, json={"name": ...})
\* (lines 245-277)
ForkRename ==
    /\ fork.pc = "rename"
    /\ RenameWanted(fork)
    /\ \E status \in {"200", "403", "502", "raised"} :
         LET f == [fork EXCEPT !.patch_status = status,
                               !.calls = Called(fork, "patch")]
         IN  CASE status = "200" ->
                    fork' = ForkReturn(f, "rename", TRUE, "", fork.new_repo_name)
               [] status = "403" ->
                    fork' = ForkReturn(f, "rename", FALSE, ErrRename, source_repo)
               [] status = "502" ->
                    \E e \in JsonErrors :
                      fork' = ForkReturn(f, "rename raised", FALSE, e, "")
               [] OTHER ->
                    \E e \in RaisedWithoutTimeout :
                      fork' = ForkReturn(f, "rename raised", FALSE, e, "")
    /\ UNCHANGED <<derive, zip, sec, perm, cci, retr, orig, fsVars, pkgVars, mainVars>>

\* Step 2 without a rename (lines 278-284)
ForkKeepName ==
    /\ fork.pc = "rename"
    /\ ~RenameWanted(fork)
    /\ fork' = ForkReturn(fork, "keep name", TRUE, "", source_repo)
    /\ UNCHANGED <<derive, zip, sec, perm, cci, retr, orig, fsVars, pkgVars, mainVars>>

\* 422, name exists: requests.get(/user) (lines 310-312, 350-353)
ForkRecoverUser ==
    /\ fork.pc = "recover user"
    /\ \E status \in {"200", "401", "raised"} :
         LET f == [fork EXCEPT !.user_status = status,
                               !.calls = Called(fork, "user")]
         IN  CASE status = "200" -> fork' = [f EXCEPT !.pc = "recover fork"]
               [] status = "401" ->
                    fork' = ForkReturn(f, "422", FALSE, ErrForkFailed, "")
               [] OTHER ->
                    \E e \in RaisedWithoutTimeout :
                      fork' = ForkReturn(f, "recover raised", FALSE, e, "")
    /\ UNCHANGED <<derive, zip, sec, perm, cci, retr, orig, fsVars, pkgVars, mainVars>>

\* 422: is there a fork under the original name (lines 316-319, 338)
ForkRecoverCheckFork ==
    /\ fork.pc = "recover fork"
    /\ \E status \in {"200", "404", "raised"} :
         LET f == [fork EXCEPT !.fork_status = status,
                               !.calls = Called(fork, "check_fork")]
         IN  CASE status = "200" -> fork' = [f EXCEPT !.pc = "recover rename"]
               [] status = "404" -> fork' = [f EXCEPT !.pc = "recover new"]
               [] OTHER ->
                    \E e \in RaisedWithoutTimeout :
                      fork' = ForkReturn(f, "recover raised", FALSE, e, "")
    /\ UNCHANGED <<derive, zip, sec, perm, cci, retr, orig, fsVars, pkgVars, mainVars>>

\* 422: the fork exists, rename it (lines 321-337)
ForkRecoverRename ==
    /\ fork.pc = "recover rename"
    /\ \E status \in {"200", "403", "502", "raised"} :
         LET f == [fork EXCEPT !.patch_status = status,
                               !.calls = Called(fork, "patch")]
         IN  CASE status = "200" ->
                    fork' = ForkReturn(f, "recover rename", TRUE, "",
                                       fork.new_repo_name)
               [] status = "403" ->
                    fork' = ForkReturn(f, "recover rename", FALSE,
                                       ErrRenameExisting, "")
               [] status = "502" ->
                    \E e \in JsonErrors :
                      fork' = ForkReturn(f, "recover raised", FALSE, e, "")
               [] OTHER ->
                    \E e \in RaisedWithoutTimeout :
                      fork' = ForkReturn(f, "recover raised", FALSE, e, "")
    /\ UNCHANGED <<derive, zip, sec, perm, cci, retr, orig, fsVars, pkgVars, mainVars>>

\* 422: no fork under the original name; is there a repository with the new
\* name (lines 340-353)
ForkRecoverCheckNew ==
    /\ fork.pc = "recover new"
    /\ \E status \in {"200", "404", "raised"} :
         LET f == [fork EXCEPT !.new_status = status,
                               !.calls = Called(fork, "check_new")]
         IN  CASE status = "200" ->
                    fork' = ForkReturn(f, "recover new", TRUE, "",
                                       fork.new_repo_name)
               [] status = "404" ->
                    fork' = ForkReturn(f, "422", FALSE, ErrForkFailed, "")
               [] OTHER ->
                    \E e \in RaisedWithoutTimeout :
                      fork' = ForkReturn(f, "recover raised", FALSE, e, "")
    /\ UNCHANGED <<derive, zip, sec, perm, cci, retr, orig, fsVars, pkgVars, mainVars>>

ForkNext ==
    \/ ForkPost
    \/ ForkOwnerFromUser
    \/ ForkPoll
    \/ ForkRename
    \/ ForkKeepName
    \/ ForkRecoverUser
    \/ ForkRecoverCheckFork
    \/ ForkRecoverRename
    \/ ForkRecoverCheckNew

SpecFork == ForkInit /\ [][ForkNext]_vars

\* every request returns or raises (each carries a timeout or is answered),
\* so a call that has started keeps taking steps until it returns
SpecForkLive == ForkInit /\ [][ForkNext]_vars /\ WF_vars(ForkNext)

\* C18: the wait for the fork is one loop of at most max_attempts polls that
\* is left at the first 200; no other remote call is made twice; when the
\* attempts are used up the function goes on to the rename step, from which
\* it returns; and every call of fork_repository returns
C18_BoundedPollThenRename ==
    /\ [](/\ fork.calls.poll <= max_attempts
          /\ fork.calls.poll = fork.attempt
          /\ fork.ok_polls <= 1
          /\ (fork.fork_ready => fork.pc \in {"rename", "done"})
          /\ \A k \in {"post", "user", "patch", "check_fork", "check_new"} :
                fork.calls[k] <= 1
          /\ ((fork.attempt = max_attempts /\ ~fork.fork_ready) =>
                 /\ fork.pc \in {"rename", "done"}
                 /\ (fork.pc = "done" =>
                        fork.returned_at \in {"rename", "rename raised", "keep name"})))
    /\ [][fork.pc = "rename" => fork'.pc = "done"]_vars
    /\ <>(fork.pc = "done")

\* all attempts used without a 200, and the rename was still requested
C18_Witness ==
    /\ fork.pc = "done"
    /\ fork.calls.poll = max_attempts
    /\ ~fork.fork_ready
    /\ fork.calls.patch = 1
    /\ fork.returned_at = "rename"

\* the calls of a run that made the POST and nothing else
OnlyPost == [NoCalls EXCEPT !.post = 1]

----------------------------------------------------------------------------
(* setup_salesforce_auth.py: create_github_secret                           *)

\* the secret names and values of the calls (the value is the SFDX auth URL)
SecretNames == {"SFDX_AUTH_URL", "DEV_HUB_AUTH_URL"}
SecretValues == {"force://a", "force://b", "force://c"}

\* what the public-key endpoint can publish: a Base64 key (or a text that is
\* not one) and the identifier of the key
PublishedKeys == {"KEY1", "KEY2", "not base64"}
KeyIds == {"id1", "id2"}

\* public.PublicKey(public_key.encode("utf-8"), encoding.Base64Encoder())
\* accepts the text
ValidKey(public_key) == public_key # "not base64"

\* a value in a request body: what it is, the key it is sealed to, its text
PlainValue(text) == [kind |-> "plain", key |-> "", text |-> text]

\* the secret handed over as it is
SealedBoxOmitted(public_key, secret_value) == PlainValue(secret_value)

\* Base64 of public.SealedBox(public_key_obj).encrypt(secret_value): readable
\* only with the private half of public_key
SealedBoxEncrypt(public_key, secret_value) ==
    [kind |-> "sealed", key |-> public_key, text |-> secret_value]

\* a request as it leaves the process: the body is a set of <<field, value>>
Request(method, url, body) == [method |-> method, url |-> url, body |-> body]

\* payload = {"encrypted_value": encrypted_value, "key_id": key_id}
Payload(encrypted_value, key_id) ==
    {<<"encrypted_value", encrypted_value>>, <<"key_id", PlainValue(key_id)>>}

SecInit ==
    /\ sec \in {SecStart(n, v) : n \in SecretNames, v \in SecretValues}
    /\ perm = PermIdle
    /\ cci = CciIdle
    /\ retr = RetrIdle
    /\ orig = AbsentDir
    /\ derive = DeriveIdle
    /\ zip = ZipIdle
    /\ fork = ForkIdle
    /\ fs = {}
    /\ yml = NoYml
    /\ ident = NoIdentity
    /\ runLog = <<>>
    /\ scan = NoScan
    /\ pkgPc = "idle"
    /\ transforms = <<>>
    /\ forceApp = AbsentDir
    /\ backupApp = AbsentDir
    /\ tempDir = AbsentDir
    /\ tempRef = FALSE
    /\ preRun = AbsentDir
    /\ parentCalls = 0
    /\ parentSaw = AbsentDir
    /\ result = "none"
    /\ failedAt = "none"
    /\ mPc = "idle"
    /\ args = NoArgs
    /\ env = NoEnv
    /\ source = "none"
    /\ typed = <<>>
    /\ prompts = 0
    /\ exitCode = -1
    /\ exitAt = "none"

\* Step 1: requests.get(public_key_url), raise_for_status, the key and its
\* id read from the body (lines 78-87)
GetPublicKey ==
    /\ sec.pc = "start"
    /\ LET s == [sec EXCEPT !.sent = Append(@, Request("GET", "public-key", {}))]
       IN  \/ \E status \in {"403", "404", "raised"} :
                sec' = [s EXCEPT !.get_status = status, !.pc = "done",
                                 !.result = "False"]
           \/ \E k \in PublishedKeys, id \in KeyIds :
                sec' = [s EXCEPT !.get_status = "200", !.public_key = k,
                                 !.key_id = id, !.key_fetched = TRUE,
                                 !.pc = "encrypt"]
    /\ UNCHANGED <<derive, zip, fork, perm, cci, retr, orig, fsVars, pkgVars, mainVars>>

\* Step 2: the sealed box; ImportError when PyNaCl is not installed, any
\* other exception when the published text is not a key (lines 90-102)
EncryptSecret ==
    /\ sec.pc = "encrypt"
    /\ \E installed \in BOOLEAN :
         IF installed /\ ValidKey(sec.public_key)
         THEN sec' = [sec EXCEPT
                        !.encrypted_value =
                            SealedBoxEncrypt(sec.public_key, sec.secret_value),
                        !.encrypted = TRUE,
                        !.pc = "put"]
         ELSE sec' = [sec EXCEPT !.pc = "done", !.result = "False"]
    /\ UNCHANGED <<derive, zip, fork, perm, cci, retr, orig, fsVars, pkgVars, mainVars>>

\* Step 3: requests.put(secret_url, json=payload), raise_for_status
\* (lines 105-119)
PutSecret ==
    /\ sec.pc = "put"
    /\ \E status \in {"201", "204", "403", "raised"} :
         sec' = [sec EXCEPT
                   !.sent = Append(@, Request("PUT", sec.secret_name,
                                       Payload(sec.encrypted_value, sec.key_id))),
                   !.put_status = status,
                   !.pc = "done",
                   !.result = IF status \in {"201", "204"} THEN "True"
                              ELSE "False"]
    /\ UNCHANGED <<derive, zip, fork, perm, cci, retr, orig, fsVars, pkgVars, mainVars>>

SecNext ==
    \/ GetPublicKey
    \/ EncryptSecret
    \/ PutSecret

SpecSec == SecInit /\ [][SecNext]_vars

\* the requests sent so far that are PUTs
PutsSent == {i \in 1..Len(sec.sent) : sec.sent[i].method = "PUT"}

\* the values found in the bodies of the requests sent so far
ValuesSent == {pair[2] : pair \in UNION {sec.sent[i].body : i \in 1..Len(sec.sent)}}

\* the value is the secret of this call sealed to the key that was fetched
IsSealedSecret(v) ==
    v.kind = "sealed" /\ v.key = sec.public_key /\ v.text = sec.secret_value

----------------------------------------------------------------------------
(* Properties of the template protection                                   *)

\* main runs in CI mode and GITHUB_REPOSITORY names the template repository
InTemplateRepoInCI ==
    /\ args.non_interactive \/ env.CI = "true"
    /\ Lower(env.GITHUB_REPOSITORY) \in TEMPLATE_REPOS

\* C21: in CI mode with GITHUB_REPOSITORY naming the template repository
\* (in any spelling of upper and lower case) the first step of main is the
\* exit with status 1, whatever the repository name and the explicit
\* identity arguments are, and it leaves every file and directory and
\* cumulusci.yml as they were, with no call of replace_tokens_in_files
C21_TemplateRepoIsProtected ==
    /\ []((InTemplateRepoInCI /\ mPc # "start") =>
             /\ mPc = "exit"
             /\ exitCode = 1
             /\ exitAt = "template_protection"
             /\ runLog = <<>>
             /\ prompts = 0)
    /\ [][(InTemplateRepoInCI /\ mPc = "start") =>
             (mPc' = "exit" /\ fs' = fs /\ yml' = yml /\ runLog' = runLog)]_vars

\* the protection stopped a run that was given a repository name and all
\* three explicit values, in a tree that still holds tokens
C21_Witness ==
    /\ mPc = "exit"
    /\ exitAt = "template_protection"
    /\ env.GITHUB_REPOSITORY # Lower(env.GITHUB_REPOSITORY)
    /\ args.repo_name # <<>>
    /\ AllExplicit
    /\ \E n \in fs : HasToken(BaseName(n.path))

----------------------------------------------------------------------------
(* Properties of the order of the directory renames                        *)

\* q lies strictly below p
Below(q, p) == IsPrefix(p, q) /\ q # p

\* C22: in every run the rename loops find each collected path still in
\* place when they reach it, and a directory is never reached before a
\* token-named directory nested inside it
C22_DeepestDirectoryFirst ==
    \A k \in 1..Len(runLog) :
        LET a == runLog[k].attempts
        IN /\ \A j \in 1..Len(a) : a[j].valid
           /\ \A i, j \in 1..Len(a) :
                 (i < j /\ a[i].dir /\ a[j].dir) => ~Below(a[j].path, a[i].path)

\* a run that renamed a token-named directory and then the token-named
\* directory that holds it
C22_Witness ==
    /\ Len(runLog) >= 1
    /\ \E i, j \in 1..Len(runLog[1].attempts) :
          LET a == runLog[1].attempts
          IN /\ i < j
             /\ a[i].dir /\ a[j].dir
             /\ Below(a[i].path, a[j].path)
             /\ {a[i].path, a[j].path} \subseteq {r.src : r \in runLog[1].renames}

----------------------------------------------------------------------------
(* tasks/permsets.py: AssignPermissionSetsWithFindReplace                   *)

MaxPatterns == 2
MaxApiNames == 2

\* replace: $project_config.project__package__name
PACKAGE_NAME_REF == <<"$project_config.project__package__name">>

\* the replacement after the lookup in project_config (lines 90-103): the
\* attribute value when there is one, the text as written otherwise
ResolveReplace(replace, project_config) ==
    IF replace = PACKAGE_NAME_REF /\ project_config # <<>> THEN project_config
    ELSE replace

\* the inner loop of _apply_find_replace for one entry: every pattern with a
\* find and a replace stores api_name.replace(find, replace) in the entry,
\* api_name being the entry as it was when the loop over patterns began
RECURSIVE ApplyPatternsToName(_, _, _, _)
ApplyPatternsToName(api_name, entry, patterns, project_config) ==
    IF patterns = <<>> THEN entry
    ELSE LET pattern == Head(patterns)
         IN IF pattern.find # <<>> /\ pattern.replace # <<>>
            THEN ApplyPatternsToName(api_name,
                     StrReplace(api_name, pattern.find,
                                ResolveReplace(pattern.replace, project_config)),
                     Tail(patterns), project_config)
            ELSE ApplyPatternsToName(api_name, entry, Tail(patterns), project_config)

\* _apply_find_replace(options): self.options["api_names"] afterwards
ApplyFindReplace(api_names, patterns, project_config) ==
    IF patterns = <<>> THEN api_names
    ELSE [i \in 1..Len(api_names) |->
            ApplyPatternsToName(api_names[i], api_names[i], patterns, project_config)]

\* permission set names, patterns and package names of the calls
ApiNamePool == {<<TN, "Admin">>, <<TN, "_", TL>>, <<"Plain">>}
PermPatternPool ==
    { Pattern(<<TN>>, <<"Acme">>), Pattern(<<TL>>, <<"Label">>),
      Pattern(<<TN>>, PACKAGE_NAME_REF), Pattern(<<"Acme">>, <<>>) }
ProjectConfigs == {<<>>, <<"Pkg">>}

PermInit ==
    /\ perm \in {PermStart(names, pats, cfg) :
                   names \in {q \in SeqsUpTo(ApiNamePool, MaxApiNames) : q # <<>>},
                   pats \in SeqsUpTo(PermPatternPool, MaxPatterns),
                   cfg \in ProjectConfigs}
    /\ derive = DeriveIdle
    /\ zip = ZipIdle
    /\ fork = ForkIdle
    /\ sec = SecIdle
    /\ cci = CciIdle
    /\ retr = RetrIdle
    /\ orig = AbsentDir
    /\ fs = {}
    /\ yml = NoYml
    /\ ident = NoIdentity
    /\ runLog = <<>>
    /\ scan = NoScan
    /\ pkgPc = "idle"
    /\ transforms = <<>>
    /\ forceApp = AbsentDir
    /\ backupApp = AbsentDir
    /\ tempDir = AbsentDir
    /\ tempRef = FALSE
    /\ preRun = AbsentDir
    /\ parentCalls = 0
    /\ parentSaw = AbsentDir
    /\ result = "none"
    /\ failedAt = "none"
    /\ mPc = "idle"
    /\ args = NoArgs
    /\ env = NoEnv
    /\ source = "none"
    /\ typed = <<>>
    /\ prompts = 0
    /\ exitCode = -1
    /\ exitAt = "none"

\* self._apply_find_replace(transform.get("options", {}))
ApplyFindReplaceCall ==
    /\ perm.pc = "start"
    /\ perm' = [perm EXCEPT !.pc = "done",
                            !.out = ApplyFindReplace(perm.api_names, perm.patterns,
                                                     perm.project_config)]
    /\ UNCHANGED <<derive, zip, fork, sec, cci, retr, orig, fsVars, pkgVars, mainVars>>

PermNext == ApplyFindReplaceCall

SpecPerm == PermInit /\ [][PermNext]_vars

\* each pattern that has a find and a replace applied to what the patterns
\* before it produced
RECURSIVE Chained(_, _, _)
Chained(name, patterns, project_config) ==
    IF patterns = <<>> THEN name
    ELSE LET pattern == Head(patterns)
         IN Chained(IF pattern.find # <<>> /\ pattern.replace # <<>>
                    THEN StrReplace(name, pattern.find,
                                    ResolveReplace(pattern.replace, project_config))
                    ELSE name,
                    Tail(patterns), project_config)

\* C23: after _apply_find_replace every entry of api_names is the entry with
\* all patterns applied in list order, each to the output of the one before
C23_LaterPatternsSeeEarlierOutput ==
    perm.pc = "done" =>
        /\ Len(perm.out) = Len(perm.api_names)
        /\ \A i \in 1..Len(perm.out) :
              perm.out[i] = Chained(perm.api_names[i], perm.patterns, perm.project_config)

----------------------------------------------------------------------------
(* setup_new_project.py (repository root): update_cumulusci_yml             *)

MaxTail == 3

\* a line of cumulusci.yml: its indentation, the key it starts with, its
\* value and whether the value stands in double quotes
Line(indent, key, value, quoted) ==
    [indent |-> indent, key |-> key, value |-> value, quoted |-> quoted]

\* re.sub(r'name:\s*"[^"]*"', f'name: "{project_label}"', line), and the same
\* for name_managed: a value in double quotes is replaced, any other is kept
SubQuoted(line, project_label) ==
    IF line.quoted THEN [line EXCEPT !.value = project_label] ELSE line

\* re.sub(r'name:\s*\w+', f'name: {api_name}', line): the word characters the
\* value begins with are replaced, a value in quotes is kept
SubWord(line, api_name) ==
    IF line.quoted \/ WordPrefix(line.value) = <<>> THEN line
    ELSE [line EXCEPT !.value =
            api_name \o SubSeq(line.value, Len(WordPrefix(line.value)) + 1,
                               Len(line.value))]

\* the loop over the lines from line i on, with its two flags
RECURSIVE UpdateLines(_, _, _, _, _)
UpdateLines(lines, i, in_project_section, in_package_section, project_label) ==
    IF i > Len(lines) THEN lines
    ELSE LET line == lines[i]
             api_name == StrReplace(project_label, <<" ">>, <<>>)
         IN  CASE line.key = "project" ->
                    UpdateLines(lines, i + 1, TRUE, FALSE, project_label)
               [] line.key = "package" ->
                    UpdateLines(lines, i + 1, in_project_section, TRUE, project_label)
               [] in_project_section /\ ~in_package_section /\ line.key = "name" ->
                    UpdateLines([lines EXCEPT ![i] = SubQuoted(line, project_label)],
                                i + 1, FALSE, in_package_section, project_label)
               [] in_package_section /\ line.key = "name" ->
                    UpdateLines([lines EXCEPT ![i] = SubWord(line, api_name)],
                                i + 1, in_project_section, in_package_section,
                                project_label)
               [] in_package_section /\ line.key = "name_managed" ->
                    UpdateLines([lines EXCEPT ![i] = SubQuoted(line, project_label)],
                                i + 1, in_project_section, in_package_section,
                                project_label)
               [] OTHER ->
                    UpdateLines(lines, i + 1, in_project_section, in_package_section,
                                project_label)

\* the head of the template's cumulusci.yml, and lines that may follow it
YmlHead ==
    << Line(0, "project", <<>>, FALSE),
       Line(1, "name", <<TL>>, TRUE),
       Line(1, "package", <<>>, FALSE),
       Line(2, "name", <<TN>>, FALSE),
       Line(2, "name_managed", <<TL>>, TRUE) >>
YmlTailPool ==
    { Line(1, "git", <<>>, FALSE),
      Line(2, "default_branch", <<"main">>, FALSE),
      Line(0, "tasks", <<>>, FALSE),
      Line(1, "robot", <<>>, FALSE),
      Line(2, "options", <<>>, FALSE),
      Line(3, "name", <<"dev">>, FALSE),
      Line(3, "name", <<"Dev", " ", "Org">>, TRUE),
      Line(3, "name_managed", <<"Dev", " ", "Org">>, TRUE) }
ProjectLabels == {<<"Acme", " ", "Co">>, <<"Acme">>}

CciInit ==
    /\ cci \in {CciStart(YmlHead \o tail, label) :
                  tail \in SeqsUpTo(YmlTailPool, MaxTail), label \in ProjectLabels}
    /\ derive = DeriveIdle
    /\ zip = ZipIdle
    /\ fork = ForkIdle
    /\ sec = SecIdle
    /\ perm = PermIdle
    /\ retr = RetrIdle
    /\ orig = AbsentDir
    /\ fs = {}
    /\ yml = NoYml
    /\ ident = NoIdentity
    /\ runLog = <<>>
    /\ scan = NoScan
    /\ pkgPc = "idle"
    /\ transforms = <<>>
    /\ forceApp = AbsentDir
    /\ backupApp = AbsentDir
    /\ tempDir = AbsentDir
    /\ tempRef = FALSE
    /\ preRun = AbsentDir
    /\ parentCalls = 0
    /\ parentSaw = AbsentDir
    /\ result = "none"
    /\ failedAt = "none"
    /\ mPc = "idle"
    /\ args = NoArgs
    /\ env = NoEnv
    /\ source = "none"
    /\ typed = <<>>
    /\ prompts = 0
    /\ exitCode = -1
    /\ exitAt = "none"

\* update_cumulusci_yml(project_name, project_label) on an existing file
UpdateCumulusciYml ==
    /\ cci.pc = "start"
    /\ cci' = [cci EXCEPT !.pc = "done",
                          !.out = UpdateLines(cci.lines, 1, FALSE, FALSE,
                                              cci.project_label)]
    /\ UNCHANGED <<derive, zip, fork, sec, perm, retr, orig, fsVars, pkgVars, mainVars>>

CciNext == UpdateCumulusciYml

SpecCci == CciInit /\ [][CciNext]_vars

\* the lines of the section opened by line j: those that follow it with a
\* deeper indentation
Section(lines, j) ==
    {i \in (j + 1)..Len(lines) : \A m \in (j + 1)..i : lines[m].indent > lines[j].indent}

\* the first name: line under project:, and the name: and name_managed:
\* lines of the package: section
ProjectNameLine(lines) ==
    {i \in 1..Len(lines) :
        /\ lines[i].key = "name"
        /\ \E j \in 1..Len(lines) :
              /\ lines[j].key = "project" /\ i \in Section(lines, j)
              /\ \A m \in (j + 1)..(i - 1) : lines[m].key # "name"}
PackageLines(lines) ==
    {i \in 1..Len(lines) :
        /\ lines[i].key \in {"name", "name_managed"}
        /\ \E j \in 1..Len(lines) :
              lines[j].key = "package" /\ i \in Section(lines, j)}

\* C24: update_cumulusci_yml keeps the number of lines and changes no line
\* other than the first name: line under project: and the name: and
\* name_managed: lines of the package: section
C24_OnlyThreeLinesChange ==
    cci.pc = "done" =>
        /\ Len(cci.out) = Len(cci.lines)
        /\ \A i \in 1..Len(cci.lines) :
              cci.out[i] # cci.lines[i] =>
                  i \in ProjectNameLine(cci.lines) \cup PackageLines(cci.lines)

----------------------------------------------------------------------------
(* Properties of the packaging step                                        *)

C27_ScratchDirectoryRemoved ==
    pkgPc = "done" => ~tempDir.exists

----------------------------------------------------------------------------
(* A run of _run_task after an interrupted one                             *)

\* the transforms of the run that was interrupted
PreviousTransforms ==
    <<FindReplace(<<Pattern(TOKEN_NAME, <<"Acme">>), Pattern(TOKEN_LABEL, <<"Acme", "-", "Co">>)>>)>>

\* the working directory a run killed between the rename of Step 2 and the
\* restore of Step 3 leaves behind: the original tree in force-app.backup,
\* and in force-app nothing, or a part or all of the transformed copy
PkgResumeInit ==
    /\ orig \in {t \in SourceTrees : t.files # {}}
    /\ pkgPc = "idle"
    /\ transforms \in TransformConfigs
    /\ forceApp \in Partial(DirOf(ApplyTransforms(orig.files, PreviousTransforms)))
    /\ backupApp = orig
    /\ tempDir = AbsentDir
    /\ tempRef = FALSE
    /\ preRun = AbsentDir
    /\ parentCalls = 0
    /\ parentSaw = AbsentDir
    /\ result = "none"
    /\ failedAt = "none"
    /\ fs = {}
    /\ yml = NoYml
    /\ ident = [project_name |-> <<>>, package_name |-> <<>>, name_managed |-> <<>>]
    /\ runLog = <<>>
    /\ scan = [done |-> FALSE, found |-> {}]
    /\ mPc = "idle"
    /\ args = NoArgs
    /\ env = NoEnv
    /\ source = "none"
    /\ typed = <<>>
    /\ prompts = 0
    /\ exitCode = -1
    /\ exitAt = "none"
    /\ derive = DeriveIdle
    /\ zip = ZipIdle
    /\ fork = ForkIdle
    /\ sec = SecIdle
    /\ perm = PermIdle
    /\ cci = CciIdle
    /\ retr = RetrIdle

SpecPkgResume == PkgResumeInit /\ [][PkgNext]_vars

\* C26: when the run that follows an interrupted one has completed, the
\* original tree is still on disk, as force-app or as force-app.backup
C26_OriginalSurvivesNextRun ==
    (pkgPc = "done" /\ orig.exists) => (forceApp = orig \/ backupApp = orig)

\* C28: after the one configured transform was applied to the scratch copy,
\* the files of the directory are exactly the entries of the rewritten
\* archive, by name and content
C28_DirectoryEqualsRewrittenArchive ==
    (pkgPc = "swap_rm" /\ Len(transforms) = 1) =>
        LET zf == Process(SetToSeq(forceApp.files), transforms[1].patterns)
        IN tempDir.files = {zf[i] : i \in 1..Len(zf)}

----------------------------------------------------------------------------
(* Properties of the returned counts                                       *)

\* C29: in every run renamed_count is the number of renames that were made
\* and updated_count is the number of files written (cumulusci.yml among
\* them), so both are zero exactly when the run changed nothing
C29_CountsEqualOperations ==
    \A k \in 1..Len(runLog) :
        LET run == runLog[k]
        IN /\ run.renamed_count = Cardinality(run.renames)
           /\ run.updated_count =
                 Cardinality(run.written) + (IF run.yml_written THEN 1 ELSE 0)
           /\ ((run.renamed_count = 0 /\ run.updated_count = 0) <=>
                 (run.renames = {} /\ run.written = {} /\ ~run.yml_written))

----------------------------------------------------------------------------
(* tasks/retrieve_changes.py: process_file of _preserve_tokens              *)

MaxTokens == 2

\* token_values after the loop over tokens_to_preserve, as the list of its
\* items: re.search(re.escape(token), text) finds the text of the token
\* itself, and the part of the text it matched is stored as the key
RECURSIVE TokenValues(_, _, _)
TokenValues(filename, content, tokens) ==
    IF tokens = <<>> THEN <<>>
    ELSE LET token == tokens[Len(tokens)]
             before == TokenValues(filename, content, SubSeq(tokens, 1, Len(tokens) - 1))
             resolved_part == token
         IN IF (Contains(filename, token) \/ Contains(content, token))
               /\ \A i \in 1..Len(before) : before[i].resolved # resolved_part
            THEN Append(before, [resolved |-> resolved_part, token |-> token])
            ELSE before

\* for resolved, token in token_values.items(): text.replace(resolved, token)
RECURSIVE ReplaceBack(_, _)
ReplaceBack(text, items) ==
    IF items = <<>> THEN text
    ELSE ReplaceBack(StrReplace(text, Head(items).resolved, Head(items).token),
                     Tail(items))

\* process_file(filename, content)
ProcessFile(filename, content, tokens) ==
    LET items == TokenValues(filename, content, tokens)
    IN [new_name |-> ReplaceBack(filename, items),
        new_content |-> ReplaceBack(content, items)]

\* retrieved files, the option preserve_tokens and what the org holds in
\* place of each token
RetrievedNames ==
    {<<"Acme", "Home", ".page">>, <<TN, "Home", ".page">>, <<"classes", "/", "A", ".cls">>}
RetrievedContents == {<<"x", "Acme">>, <<TN>>, <<"y">>, <<"Acme", "-", "Co">>}
PreservedTokens == {q \in SeqsUpTo({TOKEN_NAME, TOKEN_LABEL}, MaxTokens) : q # <<>>}
ResolvedValues ==
    { [name |-> <<"Acme">>, label |-> <<"Acme", "-", "Co">>],
      [name |-> <<"Acme">>, label |-> <<"Acme">>] }

RetrInit ==
    /\ retr \in {RetrStart(f, c, toks, res) :
                   f \in RetrievedNames, c \in RetrievedContents,
                   toks \in PreservedTokens, res \in ResolvedValues}
    /\ derive = DeriveIdle
    /\ zip = ZipIdle
    /\ fork = ForkIdle
    /\ sec = SecIdle
    /\ perm = PermIdle
    /\ cci = CciIdle
    /\ orig = AbsentDir
    /\ fs = {}
    /\ yml = NoYml
    /\ ident = NoIdentity
    /\ runLog = <<>>
    /\ scan = NoScan
    /\ pkgPc = "idle"
    /\ transforms = <<>>
    /\ forceApp = AbsentDir
    /\ backupApp = AbsentDir
    /\ tempDir = AbsentDir
    /\ tempRef = FALSE
    /\ preRun = AbsentDir
    /\ parentCalls = 0
    /\ parentSaw = AbsentDir
    /\ result = "none"
    /\ failedAt = "none"
    /\ mPc = "idle"
    /\ args = NoArgs
    /\ env = NoEnv
    /\ source = "none"
    /\ typed = <<>>
    /\ prompts = 0
    /\ exitCode = -1
    /\ exitAt = "none"

\* process_text_in_directory calls process_file on one retrieved file
ProcessRetrievedFile ==
    /\ retr.pc = "start"
    /\ LET r == ProcessFile(retr.filename, retr.content, retr.tokens)
       IN retr' = [retr EXCEPT !.pc = "done", !.new_name = r.new_name,
                               !.new_content = r.new_content]
    /\ UNCHANGED <<derive, zip, fork, sec, perm, cci, orig, fsVars, pkgVars, mainVars>>

RetrNext == ProcessRetrievedFile

SpecRetr == RetrInit /\ [][RetrNext]_vars

\* what the org holds in place of a preserved token
ResolvedOf(token) ==
    IF token = TOKEN_NAME THEN retr.resolved.name ELSE retr.resolved.label

\* C30: for every preserved token, a file name or content holding the
\* resolved value of the token comes back from process_file without that
\* value and with the token
C30_ResolvedValueReplacedByToken ==
    retr.pc = "done" =>
        \A i \in 1..Len(retr.tokens) :
            LET token == retr.tokens[i]
                value == ResolvedOf(token)
            IN /\ Contains(retr.filename, value) =>
                     (~Contains(retr.new_name, value) /\ HasToken(retr.new_name))
               /\ Contains(retr.content, value) =>
                     (~Contains(retr.new_content, value) /\ HasToken(retr.new_content))

====
